---------------------------- MODULE Spec2Model ----------------------------
(***************************************************************************)
(* A model of the image viewer (src/src/main.rs, image_processing.rs).     *)
(*                                                                         *)
(* The session state of ImageViewerApp is the record `app`; the files the  *)
(* program can be pointed at are the function `fs` from paths to what the  *)
(* two decoders (the image crate and the tiff crate) make of them.         *)
(*                                                                         *)
(* Numbers.  A 32-bit float sample is modelled by an integer k that stands *)
(* for the value k / SampleDen; arithmetic on samples is exact rational    *)
(* arithmetic, and a Rust `as u8` cast is truncation toward zero saturated *)
(* to 0..255.  A scale is an integer in units of 1 / ScaleOne.             *)
(***************************************************************************)
EXTENDS Integers, Sequences, FiniteSets, TLC

VARIABLES
    app,        \* the fields of ImageViewerApp
    fs,         \* path -> what decoding the file at that path yields
    started,    \* main() has built the application
    alive,      \* FALSE once a panic has ended the process
    last_load,  \* the last load_image call of the last step, or None
    last_query, \* the image coordinate the pixel tool was asked for in the
                \* last frame, or None
    fft_loop    \* the output loop of an fft call that is followed one
                \* put_pixel at a time, or None

vars == <<app, fs, started, alive, last_load, last_query, fft_loop>>

----------------------------------------------------------------------------
(* Bounds of the model *)

MaxWidth  == 2      \* image widths are 1..MaxWidth
MaxHeight == 2      \* image heights are 1..MaxHeight
MaxLen    == 8      \* longest decoded sample sequence
MaxSample == 3      \* samples are -1..MaxSample, in units of 1/SampleDen
SampleDen == 2      \* fixed-point denominator of a sample
MaxDrops  == 2      \* files dropped on the window in one frame
PointerDen == 2     \* pointer positions are in units of 1/PointerDen pixel
MaxPointer == 3     \* pointer coordinates are -MaxPointer..MaxPointer
MaxSide   == 3      \* widths and heights of the images that are normalized
MaxByte   == 3      \* their sample values are 0..MaxByte
WideMin   == 257    \* the one-row images of SpecStandardize are
WideMax   == 260    \* WideMin..WideMax pixels wide
WideValues == 13    \* and hold one of the WideValues greatest bytes
MaxGrid   == 5      \* sides of the spectra whose output loop is followed
MaxSlider == 3      \* the scale slider is put at 1.0 + k * SliderStep / 100,
SliderStep == 15    \* k in 0..MaxSlider
MaxFolder == 4      \* files of the folder that is walked with the Right key

(* Fixed-point units and constants of the program *)

ScaleOne   == 100       \* the scale 1.0
EpsilonInv == 8388608   \* 1 / f32::EPSILON = 2^23
INFINITY   == 100       \* f32::INFINITY (above every sample)

----------------------------------------------------------------------------
(* Option<T>, Result<T, E> *)

None == <<>>
Some(x) == <<x>>
IsSome(o) == o /= <<>>
Unwrap(o) == o[1]

Ok(v)  == [tag |-> "Ok", val |-> <<v>>, err |-> ""]
Err(e) == [tag |-> "Err", val |-> <<>>, err |-> e]
Panic  == [tag |-> "Panic", val |-> <<>>, err |-> "panic"]

Abs(x) == IF x < 0 THEN -x ELSE x
Min2(a, b) == IF a < b THEN a ELSE b
Max2(a, b) == IF a > b THEN a ELSE b

----------------------------------------------------------------------------
(* f32 arithmetic of the ingestion path *)

\* `(num / den) as u8` for den > 0: truncation toward zero, saturated to 0..255
as_u8(num, den) ==
    IF num <= 0 THEN 0
    ELSE IF num \div den > 255 THEN 255
    ELSE num \div den

\* iter().fold(f32::INFINITY, |a, &b| a.min(b))
RECURSIVE fold_min(_)
fold_min(data) ==
    IF data = <<>> THEN INFINITY
    ELSE Min2(Head(data), fold_min(Tail(data)))

\* iter().fold(f32::NEG_INFINITY, |a, &b| a.max(b))
RECURSIVE fold_max(_)
fold_max(data) ==
    IF data = <<>> THEN -INFINITY
    ELSE Max2(Head(data), fold_max(Tail(data)))

\* (max_val - min_val).abs() > f32::EPSILON, samples in units of 1/SampleDen
exceeds_epsilon(min_val, max_val) ==
    Abs(max_val - min_val) * EpsilonInv > SampleDen

\* a variant that rounds to the nearest byte instead of truncating
normalize_sample_rounded(val, min_val, max_val) ==
    as_u8((val - min_val) * 255 * 2 + (max_val - min_val),
          2 * (max_val - min_val))

\* (((val - min_val) / (max_val - min_val)) * 255.0) as u8
normalize_sample(val, min_val, max_val) ==
    as_u8((val - min_val) * 255, max_val - min_val)

\* a variant that casts the alpha sample without scaling it to 0..255
alpha_byte_unscaled(a) ==
    as_u8(Max2(0, Min2(a, SampleDen)), SampleDen)

\* (pixel[3].clamp(0.0, 1.0) * 255.0) as u8
alpha_byte(a) ==
    as_u8(Max2(0, Min2(a, SampleDen)) * 255, SampleDen)

----------------------------------------------------------------------------
(* DynamicImage *)

Channels(kind) ==
    CASE kind \in {"Luma8", "Luma16"} -> 1
      [] kind \in {"Rgb8", "Rgb16"}   -> 3
      [] kind \in {"Rgba8", "Rgba16"} -> 4

\* ImageBuffer::from_raw: None when the container is too small for
\* width * height pixels; a larger container is accepted as it is
from_raw(kind, width, height, container) ==
    IF width * height * Channels(kind) <= Len(container)
    THEN Some([kind |-> kind, width |-> width, height |-> height,
               data |-> container])
    ELSE None

\* the tuple load_image_with_fallback and load_tiff_direct return
Loaded(img, is_fp, data_range, fp_data, fp_dims, fp_channels) ==
    [img |-> img, is_fp |-> is_fp, data_range |-> data_range,
     fp_data |-> fp_data, fp_dims |-> fp_dims, fp_channels |-> fp_channels]

\* the image crate's conversion of a 16-bit sample to 8 bits (rounded)
u16_to_u8(v) == (v * 255 + 32767) \div 65535

\* one sample of a DynamicImage as the u8 its Rgba<u8> pixel holds
sample_u8(img, k) ==
    IF img.kind \in {"Luma16", "Rgb16", "Rgba16"}
    THEN u16_to_u8(img.data[k]) ELSE img.data[k]

\* DynamicImage::get_pixel(x, y).0: the pixel as [r, g, b, a] bytes
get_pixel(img, x, y) ==
    LET base == (y * img.width + x) * Channels(img.kind)
    IN  CASE Channels(img.kind) = 1 ->
               <<sample_u8(img, base + 1), sample_u8(img, base + 1),
                 sample_u8(img, base + 1), 255>>
          [] Channels(img.kind) = 3 ->
               <<sample_u8(img, base + 1), sample_u8(img, base + 2),
                 sample_u8(img, base + 3), 255>>
          [] Channels(img.kind) = 4 ->
               <<sample_u8(img, base + 1), sample_u8(img, base + 2),
                 sample_u8(img, base + 3), sample_u8(img, base + 4)>>

----------------------------------------------------------------------------
(* load_tiff_direct.  Its argument t is what the tiff crate yields for the *)
(* file: t.opened (File::open, Decoder::new, dimensions and colortype all  *)
(* succeed), t.width, t.height, t.colortype = <<space, bits>> and          *)
(* t.decoded = [type, data], the DecodingResult of read_image (type "Err"  *)
(* when read_image itself fails).                                          *)

\* a variant of the integer arms that takes whatever read_image decoded
integer_arm_unchecked(t, expected, kind) ==
    IF t.decoded.type = "Err" THEN Err("tiff read_image failed")
    ELSE LET img_buffer == from_raw(kind, t.width, t.height, t.decoded.data)
         IN  IF img_buffer = None
             THEN Err("Failed to create image buffer from TIFF data")
             ELSE Ok(Loaded(Unwrap(img_buffer), FALSE, None, None, None, None))

\* the six integer arms: the decoded buffer is passed through unchanged
integer_arm(t, expected, kind) ==
    IF t.decoded.type = "Err" THEN Err("tiff read_image failed")
    ELSE IF t.decoded.type /= expected THEN Err("Unexpected data type")
    ELSE LET img_buffer == from_raw(kind, t.width, t.height, t.decoded.data)
         IN  IF img_buffer = None
             THEN Err("Failed to create image buffer from TIFF data")
             ELSE Ok(Loaded(Unwrap(img_buffer), FALSE, None, None, None, None))

\* a variant whose uniform branch casts the samples directly ("use them
\* directly", as the comment on line 361 has it) instead of filling with 128
convert_f32_direct(img_data, min_val, max_val) ==
    IF exceeds_epsilon(min_val, max_val)
    THEN [i \in 1..Len(img_data) |->
             normalize_sample(img_data[i], min_val, max_val)]
    ELSE [i \in 1..Len(img_data) |-> as_u8(img_data[i], SampleDen)]

\* the display bytes of a Gray(32) or RGB(32) buffer
convert_f32(img_data, min_val, max_val) ==
    IF exceeds_epsilon(min_val, max_val)
    THEN [i \in 1..Len(img_data) |->
             normalize_sample(img_data[i], min_val, max_val)]
    ELSE [i \in 1..Len(img_data) |-> 128]

\* the Gray(32) and RGB(32) arms
float_arm(t, kind, channels) ==
    IF t.decoded.type = "Err" THEN Err("tiff read_image failed")
    ELSE IF t.decoded.type /= "F32" THEN Err("Unexpected data type")
    ELSE LET img_data   == t.decoded.data
             min_val    == fold_min(img_data)
             max_val    == fold_max(img_data)
             converted  == convert_f32(img_data, min_val, max_val)
             img_buffer == from_raw(kind, t.width, t.height, converted)
         IN  IF img_buffer = None
             THEN Err("Failed to create image buffer from TIFF data")
             ELSE Ok(Loaded(Unwrap(img_buffer), TRUE,
                            Some(<<min_val, max_val>>), Some(img_data),
                            Some(<<t.width, t.height>>), Some(channels)))

\* &img_data[..pixel_count * 3]: the samples the RGBA(32) statistics read
rgb_data(img_data, pixel_count) == SubSeq(img_data, 1, pixel_count * 3)

\* the display bytes of an RGBA(32) buffer whose length is a multiple of 4
convert_rgba_f32(img_data, min_val, max_val) ==
    IF exceeds_epsilon(min_val, max_val)
    THEN [i \in 1..Len(img_data) |->
             IF i % 4 = 0 THEN alpha_byte(img_data[i])
             ELSE normalize_sample(img_data[i], min_val, max_val)]
    ELSE [i \in 1..Len(img_data) |->
             IF i % 4 = 0 THEN alpha_byte(img_data[i]) ELSE 128]

\* the RGBA(32) arm; the slice and pixel[..] of a short last chunk panic
rgba_float_arm(t) ==
    IF t.decoded.type = "Err" THEN Err("tiff read_image failed")
    ELSE IF t.decoded.type /= "F32" THEN Err("Unexpected data type")
    ELSE LET img_data    == t.decoded.data
             pixel_count == t.width * t.height
         IN  IF Len(img_data) < pixel_count * 3 THEN Panic
             ELSE IF Len(img_data) % 4 /= 0 THEN Panic
             ELSE
             LET stats      == rgb_data(img_data, pixel_count)
                 min_val    == fold_min(stats)
                 max_val    == fold_max(stats)
                 converted  == convert_rgba_f32(img_data, min_val, max_val)
                 img_buffer == from_raw("Rgba8", t.width, t.height, converted)
             IN  IF img_buffer = None
                 THEN Err("Failed to create image buffer from TIFF data")
                 ELSE Ok(Loaded(Unwrap(img_buffer), TRUE,
                                Some(<<min_val, max_val>>), Some(img_data),
                                Some(<<t.width, t.height>>), Some(4)))

load_tiff_direct(t) ==
    IF ~t.opened THEN Err("tiff open failed")
    ELSE CASE t.colortype = <<"Gray", 8>>  -> integer_arm(t, "U8", "Luma8")
           [] t.colortype = <<"Gray", 16>> -> integer_arm(t, "U16", "Luma16")
           [] t.colortype = <<"RGB", 8>>   -> integer_arm(t, "U8", "Rgb8")
           [] t.colortype = <<"RGB", 16>>  -> integer_arm(t, "U16", "Rgb16")
           [] t.colortype = <<"RGBA", 8>>  -> integer_arm(t, "U8", "Rgba8")
           [] t.colortype = <<"RGBA", 16>> -> integer_arm(t, "U16", "Rgba16")
           [] t.colortype = <<"Gray", 32>> -> float_arm(t, "Luma8", 1)
           [] t.colortype = <<"RGB", 32>>  -> float_arm(t, "Rgb8", 3)
           [] t.colortype = <<"RGBA", 32>> -> rgba_float_arm(t)
           [] OTHER -> Err("Unsupported TIFF color type")

----------------------------------------------------------------------------
(* Paths.  A path is [dir, name, ext]; name is the rank of the file name   *)
(* in the lexicographic order of its directory and ext is Some(extension)  *)
(* or None.                                                                *)

Path(dir, name, ext) == [dir |-> dir, name |-> name, ext |-> ext]

\* str::to_lowercase on the extensions of the model
to_lowercase(s) ==
    CASE s = "TIF"  -> "tif"
      [] s = "TIFF" -> "tiff"
      [] s = "Tiff" -> "tiff"
      [] s = "PNG"  -> "png"
      [] OTHER      -> s

\* a variant that falls back to the TIFF decoder whatever the extension
load_image_with_fallback_any_extension(path, disk) ==
    IF IsSome(disk[path].generic)
    THEN [ret |-> Ok(Loaded(Unwrap(disk[path].generic),
                            FALSE, None, None, None, None)),
          ran |-> <<"generic">>]
    ELSE [ret |-> load_tiff_direct(disk[path].tiff),
          ran |-> <<"generic", "tiff">>]

\* load_image_with_fallback: the result and the decoders it ran, in order
load_image_with_fallback(path, disk) ==
    LET generic == disk[path].generic      \* image::open(path)
    IN  IF IsSome(generic)
        THEN [ret |-> Ok(Loaded(Unwrap(generic), FALSE, None, None, None, None)),
              ran |-> <<"generic">>]
        ELSE IF /\ IsSome(path.ext)
                /\ \/ to_lowercase(Unwrap(path.ext)) = "tiff"
                   \/ to_lowercase(Unwrap(path.ext)) = "tif"
        THEN [ret |-> load_tiff_direct(disk[path].tiff),
              ran |-> <<"generic", "tiff">>]
        ELSE [ret |-> Err("generic decode failed"), ran |-> <<"generic">>]

----------------------------------------------------------------------------
(* ImageViewerApp *)

NormalizationType == {"None", "MinMax", "LogMinMax", "Standard", "FFT"}
ChannelType == {"RGB", "Red", "Green", "Blue"}

\* impl Default for ImageViewerApp
default_app ==
    [image |-> None, image_path |-> None, last_opened_folder |-> None,
     scale |-> ScaleOne, base_scale |-> ScaleOne,
     normalization |-> "None", channel |-> "RGB",
     texture |-> None, offset |-> <<0, 0>>,
     texture_needs_update |-> FALSE, last_texture_scale |-> ScaleOne,
     last_normalization |-> "None", last_channel |-> "RGB",
     is_floating_point_image |-> FALSE, original_data_range |-> None,
     original_fp_data |-> None, original_fp_dimensions |-> None,
     original_fp_channels |-> None,
     histogram_data |-> None, histogram_needs_update |-> FALSE,
     folder_images |-> <<>>, current_image_index |-> None,
     pixel_info |-> None, pixel_info_fp |-> None,
     pixel_info_channels |-> None, show_pixel_tool |-> FALSE,
     hover_pos |-> None,
     show_histogram |-> FALSE, histogram_window_id |-> None,
     histogram_shared_data |-> [histograms |-> None,
                                close_requested |-> FALSE]]

supported_extensions ==
    {"png", "jpg", "jpeg", "bmp", "tif", "tiff", "webp", "gif", "avif",
     "hdr", "exr", "farbfeld", "qoi", "dds", "tga", "pnm", "ff", "ico"}

\* image_files.sort(): paths of one directory, ordered by file name
RECURSIVE sort_paths(_)
sort_paths(S) ==
    IF S = {} THEN <<>>
    ELSE LET first == CHOOSE p \in S : \A q \in S : p.name <= q.name
         IN  <<first>> \o sort_paths(S \ {first})

\* a variant that counts the entries from 1
position_from_one(list, current_path) ==
    LET hits == {i \in 1..Len(list) : list[i] = current_path}
    IN  IF hits = {} THEN None
        ELSE Some(CHOOSE i \in hits : \A j \in hits : i <= j)

\* iter().position(|p| p == current_path), as Some(0-based index) or None
position(list, current_path) ==
    LET hits == {i \in 1..Len(list) : list[i] = current_path}
    IN  IF hits = {} THEN None
        ELSE Some((CHOOSE i \in hits : \A j \in hits : i <= j) - 1)

scan_folder_images(self, current_path, disk) ==
    LET image_files ==
            sort_paths({p \in DOMAIN disk :
                          /\ p.dir = current_path.dir
                          /\ IsSome(p.ext)
                          /\ to_lowercase(Unwrap(p.ext)) \in supported_extensions})
    IN  [self EXCEPT !.folder_images = image_files,
                     !.current_image_index = position(image_files, current_path)]

max_display_size == 1024 - 100

\* a variant that overwrites the precision fields only when the decode
\* brought new ones
store_precision_if_present(self, v) ==
    IF v.fp_data = None
    THEN [self EXCEPT !.is_floating_point_image = v.is_fp]
    ELSE [self EXCEPT !.is_floating_point_image = v.is_fp,
                      !.original_data_range = v.data_range,
                      !.original_fp_data = v.fp_data,
                      !.original_fp_dimensions = v.fp_dims,
                      !.original_fp_channels = v.fp_channels]

\* lines 225-230 of load_image: the float flag and the precision fields
store_precision(self, v) ==
    [self EXCEPT !.is_floating_point_image = v.is_fp,
                 !.original_data_range = v.data_range,
                 !.original_fp_data = v.fp_data,
                 !.original_fp_dimensions = v.fp_dims,
                 !.original_fp_channels = v.fp_channels]

\* lines 211-244 of load_image: the assignments after a successful decode
store_loaded(self, path, v) ==
    [store_precision(self, v) EXCEPT
       !.base_scale =
           Min2(Min2((max_display_size * ScaleOne) \div v.img.width,
                     (max_display_size * ScaleOne) \div v.img.height),
                ScaleOne),
       !.image = Some(v.img),
       !.image_path = Some(path),
       !.last_opened_folder = Some(path.dir),
       !.offset = <<0, 0>>,
       !.scale = ScaleOne,
       !.texture = None,
       !.texture_needs_update = TRUE,
       !.last_texture_scale = ScaleOne,
       !.last_normalization = self.normalization,
       !.last_channel = self.channel,
       !.histogram_needs_update = TRUE,
       !.histogram_data = None]

\* a variant that records the requested path before the decode is known
\* to have succeeded
load_image_after_path_first(self, path, disk, r) ==
    [app |-> IF r.ret.tag = "Ok"
             THEN scan_folder_images(store_loaded(self, path, Unwrap(r.ret.val)),
                                     path, disk)
             ELSE [self EXCEPT !.image_path = Some(path)],
     ret |-> r.ret,
     ran |-> r.ran]

\* load_image once load_image_with_fallback has returned r: the `?` returns
\* early on an error, before any field is assigned
load_image_after(self, path, disk, r) ==
    [app |-> IF r.ret.tag = "Ok"
             THEN scan_folder_images(store_loaded(self, path, Unwrap(r.ret.val)),
                                     path, disk)
             ELSE self,
     ret |-> r.ret,
     ran |-> r.ran]

\* load_image: the application after the call, the Result of the decode and
\* the decoders that ran
load_image(self, path, disk) ==
    load_image_after(self, path, disk, load_image_with_fallback(path, disk))

\* One load_image call made by a step.  m = [app, alive, last] is the
\* program in the middle of the step.  m.last keeps the call: its path,
\* what load_image_with_fallback returned, the decoders that ran and
\* whether the call changed any field of the application.
record_call(m, path, l) ==
    [app   |-> l.app,
     alive |-> l.ret.tag /= "Panic",
     last  |-> Some([path |-> path, ret |-> l.ret, ran |-> l.ran,
                     changed |-> l.app /= m.app])]

call_load_image(m, path, disk) ==
    IF ~m.alive THEN m
    ELSE record_call(m, path, load_image(m.app, path, disk))

last_call_ok(m) ==
    /\ IsSome(m.last)
    /\ Unwrap(m.last).ret.tag = "Ok"

navigate_to_adjacent_image(m, direction, disk) ==
    IF ~m.alive \/ m.app.folder_images = <<>> THEN m
    ELSE LET len == Len(m.app.folder_images)
             current_index ==
                 IF IsSome(m.app.current_image_index)
                 THEN Unwrap(m.app.current_image_index) ELSE 0
             new_index ==
                 IF direction < 0
                 THEN (IF current_index = 0 THEN len - 1 ELSE current_index - 1)
                 ELSE (IF current_index >= len - 1 THEN 0 ELSE current_index + 1)
         IN  IF new_index < len
             THEN call_load_image(m, m.app.folder_images[new_index + 1], disk)
             ELSE m

----------------------------------------------------------------------------
(* image_processing.rs.  An image is [kind, width, height, data]; the      *)
(* transforms work on img.to_rgba8(), whose data holds four bytes r, g, b, *)
(* a for every pixel, row by row.                                          *)

\* the function f on 1..n as the sequence of its values
as_seq(f) == f \o <<>>

\* channel c (1..4) of pixel number p (0-based) as to_rgba8 gives it: a
\* gray sample stands for r, g and b, a missing alpha is 255
rgba_sample(img, p, c) ==
    CASE Channels(img.kind) = 1 ->
           IF c = 4 THEN 255 ELSE sample_u8(img, p + 1)
      [] Channels(img.kind) = 3 ->
           IF c = 4 THEN 255 ELSE sample_u8(img, 3 * p + c)
      [] Channels(img.kind) = 4 -> sample_u8(img, 4 * p + c)

\* DynamicImage::to_rgba8
to_rgba8(img) ==
    [kind   |-> "Rgba8",
     width  |-> img.width,
     height |-> img.height,
     data   |-> as_seq([k \in 1..(img.width * img.height * 4) |->
                          rgba_sample(img, (k - 1) \div 4, ((k - 1) % 4) + 1)])]

\* the channel (1..4) of position k of an RGBA buffer
channel_of(k) == ((k - 1) % 4) + 1

\* the values pixel[i] of rgba.pixels()
channel_values(rgba, i) ==
    {rgba.data[k] : k \in {j \in 1..Len(rgba.data) : channel_of(j) = i}}

min_of(S) == CHOOSE v \in S : \A w \in S : v <= w
max_of(S) == CHOOSE v \in S : \A w \in S : v >= w

\* lines 10-18: min_val and max_val, which start at u8::MAX and u8::MIN
channel_min(rgba, i) == min_of(channel_values(rgba, i) \cup {255})
channel_max(rgba, i) == max_of(channel_values(rgba, i) \cup {0})
byte_min(rgba) ==
    <<channel_min(rgba, 1), channel_min(rgba, 2), channel_min(rgba, 3),
      channel_min(rgba, 4)>>
byte_max(rgba) ==
    <<channel_max(rgba, 1), channel_max(rgba, 2), channel_max(rgba, 3),
      channel_max(rgba, 4)>>

\* a variant of lines 28-33 that rounds to the nearest integer
min_max_byte_rounded(value, min_val, max_val) ==
    IF max_val > min_val
    THEN (2 * (value - min_val) * 255 + (max_val - min_val))
             \div (2 * (max_val - min_val))
    ELSE value

\* lines 28-33: one normalized sample
min_max_byte(value, min_val, max_val) ==
    IF max_val > min_val
    THEN as_u8((value - min_val) * 255, max_val - min_val)
    ELSE value

\* lines 21-39: the output for the statistics min_val, max_val
min_max_remap(rgba, min_val, max_val) ==
    [kind   |-> "Rgba8",
     width  |-> rgba.width,
     height |-> rgba.height,
     data   |-> as_seq([k \in 1..Len(rgba.data) |->
                   min_max_byte(rgba.data[k], min_val[channel_of(k)],
                                max_val[channel_of(k)])])]

min_max_of_rgba(rgba) == min_max_remap(rgba, byte_min(rgba), byte_max(rgba))

\* lines 5-40
min_max_normalize(img) == min_max_of_rgba(to_rgba8(img))

\* f32::MAX, which no logarithm of a byte reaches
F32_MAX == 10000000

\* val.ln() for the bytes 1..255, in units of 1 / LnOne
LnOne == 1000000
ln_table ==
    <<0, 693147, 1098612, 1386294, 1609438, 1791759, 1945910, 2079442,
      2197225, 2302585, 2397895, 2484907, 2564949, 2639057, 2708050,
      2772589, 2833213, 2890372, 2944439, 2995732, 3044522, 3091042,
      3135494, 3178054, 3218876, 3258097, 3295837, 3332205, 3367296,
      3401197, 3433987, 3465736, 3496508, 3526361, 3555348, 3583519,
      3610918, 3637586, 3663562, 3688879, 3713572, 3737670, 3761200,
      3784190, 3806662, 3828641, 3850148, 3871201, 3891820, 3912023,
      3931826, 3951244, 3970292, 3988984, 4007333, 4025352, 4043051,
      4060443, 4077537, 4094345, 4110874, 4127134, 4143135, 4158883,
      4174387, 4189655, 4204693, 4219508, 4234107, 4248495, 4262680,
      4276666, 4290459, 4304065, 4317488, 4330733, 4343805, 4356709,
      4369448, 4382027, 4394449, 4406719, 4418841, 4430817, 4442651,
      4454347, 4465908, 4477337, 4488636, 4499810, 4510860, 4521789,
      4532599, 4543295, 4553877, 4564348, 4574711, 4584967, 4595120,
      4605170, 4615121, 4624973, 4634729, 4644391, 4653960, 4663439,
      4672829, 4682131, 4691348, 4700480, 4709530, 4718499, 4727388,
      4736198, 4744932, 4753590, 4762174, 4770685, 4779123, 4787492,
      4795791, 4804021, 4812184, 4820282, 4828314, 4836282, 4844187,
      4852030, 4859812, 4867534, 4875197, 4882802, 4890349, 4897840,
      4905275, 4912655, 4919981, 4927254, 4934474, 4941642, 4948760,
      4955827, 4962845, 4969813, 4976734, 4983607, 4990433, 4997212,
      5003946, 5010635, 5017280, 5023881, 5030438, 5036953, 5043425,
      5049856, 5056246, 5062595, 5068904, 5075174, 5081404, 5087596,
      5093750, 5099866, 5105945, 5111988, 5117994, 5123964, 5129899,
      5135798, 5141664, 5147494, 5153292, 5159055, 5164786, 5170484,
      5176150, 5181784, 5187386, 5192957, 5198497, 5204007, 5209486,
      5214936, 5220356, 5225747, 5231109, 5236442, 5241747, 5247024,
      5252273, 5257495, 5262690, 5267858, 5273000, 5278115, 5283204,
      5288267, 5293305, 5298317, 5303305, 5308268, 5313206, 5318120,
      5323010, 5327876, 5332719, 5337538, 5342334, 5347108, 5351858,
      5356586, 5361292, 5365976, 5370638, 5375278, 5379897, 5384495,
      5389072, 5393628, 5398163, 5402677, 5407172, 5411646, 5416100,
      5420535, 5424950, 5429346, 5433722, 5438079, 5442418, 5446737,
      5451038, 5455321, 5459586, 5463832, 5468060, 5472271, 5476464,
      5480639, 5484797, 5488938, 5493061, 5497168, 5501258, 5505332,
      5509388, 5513429, 5517453, 5521461, 5525453, 5529429, 5533389,
      5537334, 5541264>>

\* val.ln(): defined for a positive byte only
ln(val) == ln_table[val]

\* a variant of lines 47-59 that counts a sample 0 with the log value 0
log_values_with_zeros(rgba, i) ==
    {IF v > 0 THEN ln(v) ELSE 0 : v \in channel_values(rgba, i)}

\* lines 47-59: the log-domain min_val and max_val; only a sample above 0
\* is looked at
log_values(rgba, i) == {ln(v) : v \in {w \in channel_values(rgba, i) : w > 0}}
channel_log_min(rgba, i) == min_of(log_values(rgba, i) \cup {F32_MAX})
channel_log_max(rgba, i) == max_of(log_values(rgba, i) \cup {0 - F32_MAX})
log_min(rgba) ==
    <<channel_log_min(rgba, 1), channel_log_min(rgba, 2),
      channel_log_min(rgba, 3), channel_log_min(rgba, 4)>>
log_max(rgba) ==
    <<channel_log_max(rgba, 1), channel_log_max(rgba, 2),
      channel_log_max(rgba, 3), channel_log_max(rgba, 4)>>

\* lines 69-75: one normalized sample
log_byte(value, min_val, max_val) ==
    IF value > 0 /\ max_val > min_val
    THEN as_u8((ln(value) - min_val) * 255, max_val - min_val)
    ELSE value

\* lines 62-81
log_remap(rgba, min_val, max_val) ==
    [kind   |-> "Rgba8",
     width  |-> rgba.width,
     height |-> rgba.height,
     data   |-> as_seq([k \in 1..Len(rgba.data) |->
                   log_byte(rgba.data[k], min_val[channel_of(k)],
                            max_val[channel_of(k)])])]

log_min_max_of_rgba(rgba) == log_remap(rgba, log_min(rgba), log_max(rgba))

\* lines 42-82
log_min_max_normalize(img) == log_min_max_of_rgba(to_rgba8(img))

(* f32 arithmetic.  A finite f32 is [sign, man, exp] with the value          *)
(* (-1)^sign * man * 2^exp, where man = 0 (zero, exp 0) or 2^23 <= man <    *)
(* 2^24; f32_nan is NaN.  Every operation rounds its exact result to the     *)
(* nearest such value, ties to the even mantissa, as IEEE 754 does.  The     *)
(* values of standardize stay far from overflow and from the subnormal       *)
(* range, which are not modelled.                                            *)

f32_zero == [sign |-> 0, man |-> 0, exp |-> 0]
f32_nan == [sign |-> 0, man |-> 0 - 1, exp |-> 0]

is_nan(x) == x.man < 0

\* the number of binary digits of n, 0 <= n < 2^31, found by halving:
\* of a number below 16, below 2^8, below 2^16, and of n
digits_4(n) ==
    IF n < 4 THEN (IF n < 2 THEN n ELSE 2) ELSE IF n < 8 THEN 3 ELSE 4

digits_8(n) == IF n < 16 THEN digits_4(n) ELSE 4 + digits_4(n \div 16)

digits_16(n) == IF n < 256 THEN digits_8(n) ELSE 8 + digits_8(n \div 256)

bit_length(n) == IF n < 65536 THEN digits_16(n) ELSE 16 + digits_16(n \div 65536)

\* man / 2^k (k >= 1) rounded to an integer, ties to even; sticky tells that
\* the exact value is a little above man
round_shift(man, k, sticky) ==
    IF \/ man % (2 ^ k) > 2 ^ (k - 1)
       \/ /\ man % (2 ^ k) = 2 ^ (k - 1)
          /\ (sticky \/ (man \div (2 ^ k)) % 2 = 1)
    THEN man \div (2 ^ k) + 1
    ELSE man \div (2 ^ k)

\* [sign, man, exp] with man of exactly 24 or 25 digits after rounding
carry_out(sign, man, exp) ==
    IF man = 2 ^ 24
    THEN [sign |-> sign, man |-> 2 ^ 23, exp |-> exp + 1]
    ELSE [sign |-> sign, man |-> man, exp |-> exp]

\* the f32 nearest to (-1)^sign * (man + a little if sticky) * 2^exp, where
\* man has n digits, 0 <= man < 2^31
round_digits(sign, man, exp, sticky, n) ==
    IF n = 0 THEN f32_zero
    ELSE IF n <= 24
    THEN [sign |-> sign, man |-> man * 2 ^ (24 - n), exp |-> exp - (24 - n)]
    ELSE carry_out(sign, round_shift(man, n - 24, sticky), exp + (n - 24))

round_f32(sign, man, exp, sticky) ==
    round_digits(sign, man, exp, sticky, bit_length(man))

\* `n as f32` for an integer 0 <= n < 2^31
f32_from(n) == round_f32(0, n, 0, FALSE)

\* the integer an integer-valued f32 below 2^31 stands for
f32_to_int(x) ==
    IF x.exp >= 0 THEN x.man * 2 ^ x.exp ELSE x.man \div (2 ^ (0 - x.exp))

f32_neg(x) == IF is_nan(x) THEN x ELSE [x EXCEPT !.sign = 1 - x.sign]

\* |x| >= |y| for finite x and y other than zero
abs_ge(x, y) == x.exp > y.exp \/ (x.exp = y.exp /\ x.man >= y.man)

\* x + y for finite non-zero x, y with |x| >= |y|; shift = x.exp - y.exp.
\* Both mantissas are taken with 6 further digits, y's shifted to x's exp
add_aligned(x, y, shift) ==
    IF shift > 30
    THEN x
    ELSE IF x.sign = y.sign
    THEN round_f32(x.sign,
                   x.man * 64 + (y.man * 64) \div (2 ^ shift),
                   x.exp - 6,
                   (y.man * 64) % (2 ^ shift) /= 0)
    ELSE IF (y.man * 64) % (2 ^ shift) /= 0
    THEN round_f32(x.sign,
                   x.man * 64 - (y.man * 64) \div (2 ^ shift) - 1,
                   x.exp - 6, TRUE)
    ELSE round_f32(x.sign,
                   x.man * 64 - (y.man * 64) \div (2 ^ shift),
                   x.exp - 6, FALSE)

\* x + y
f32_add(x, y) ==
    IF is_nan(x) \/ is_nan(y) THEN f32_nan
    ELSE IF y.man = 0 THEN x
    ELSE IF x.man = 0 THEN y
    ELSE IF abs_ge(x, y) THEN add_aligned(x, y, x.exp - y.exp)
    ELSE add_aligned(y, x, y.exp - x.exp)

\* x - y
f32_sub(x, y) == f32_add(x, f32_neg(y))

\* the product of two mantissas a = a1 * 2^12 + a0 and b = b1 * 2^12 + b0
\* is hi * 2^24 + mid * 2^12 + lo; product_top is its integer part in units
\* of 2^18 and product_rest tells whether anything is left below
product_high(a, b) ==
    (a \div 4096) * (b \div 4096)
      + ((a \div 4096) * (b % 4096) + (a % 4096) * (b \div 4096)
           + ((a % 4096) * (b % 4096)) \div 4096) \div 4096

product_mid(a, b) ==
    ((a \div 4096) * (b % 4096) + (a % 4096) * (b \div 4096)
       + ((a % 4096) * (b % 4096)) \div 4096) % 4096

product_low(a, b) == ((a % 4096) * (b % 4096)) % 4096

\* x * y
f32_mul(x, y) ==
    IF is_nan(x) \/ is_nan(y) THEN f32_nan
    ELSE IF x.man = 0 \/ y.man = 0 THEN f32_zero
    ELSE round_f32((x.sign + y.sign) % 2,
                   product_high(x.man, y.man) * 64
                     + product_mid(x.man, y.man) \div 64,
                   x.exp + y.exp + 18,
                   \/ product_mid(x.man, y.man) % 64 /= 0
                   \/ product_low(x.man, y.man) /= 0)

\* long division: <<quotient, remainder>> after the further binary digits
\* that a factor of 2^7 or 2^6 brings, for qr[2] < den < 2^24
divide_digits(qr, den, factor) ==
    <<factor * qr[1] + (factor * qr[2]) \div den, (factor * qr[2]) % den>>

\* 26 digits of rem / den after the integer part quo
divide_26(quo, rem, den) ==
    divide_digits(divide_digits(divide_digits(divide_digits(<<quo, rem>>,
        den, 128), den, 128), den, 64), den, 64)

div_rounded(sign, qr, exp) == round_f32(sign, qr[1], exp, qr[2] /= 0)

\* x / y; a division by zero does not occur in standardize
f32_div(x, y) ==
    IF is_nan(x) \/ is_nan(y) \/ y.man = 0 THEN f32_nan
    ELSE IF x.man = 0 THEN f32_zero
    ELSE div_rounded((x.sign + y.sign) % 2,
                     divide_26(x.man \div y.man, x.man % y.man, y.man),
                     x.exp - y.exp - 26)

\* the integer part of the square root of n < 2^26
RECURSIVE int_sqrt(_, _, _)
int_sqrt(n, lo, hi) ==
    IF lo = hi THEN lo
    ELSE IF ((lo + hi + 1) \div 2) * ((lo + hi + 1) \div 2) <= n
    THEN int_sqrt(n, (lo + hi + 1) \div 2, hi)
    ELSE int_sqrt(n, lo, (lo + hi + 1) \div 2 - 1)

\* digit by digit: <<root, remainder>> after `steps` further binary digits
\* of the square root, remainder = radicand - root^2
RECURSIVE root_digits(_, _, _)
root_digits(root, rem, steps) ==
    IF steps = 0 THEN <<root, rem>>
    ELSE IF 4 * rem >= 4 * root + 1
    THEN root_digits(2 * root + 1, 4 * rem - (4 * root + 1), steps - 1)
    ELSE root_digits(2 * root, 4 * rem, steps - 1)

\* the square root of man * 2^exp for an even exp
sqrt_even(man, exp, root) ==
    div_rounded(0, root_digits(root, man - root * root, 14), exp \div 2 - 14)

\* x.sqrt()
f32_sqrt(x) ==
    IF is_nan(x) \/ (x.sign = 1 /\ x.man > 0) THEN f32_nan
    ELSE IF x.man = 0 THEN f32_zero
    ELSE IF x.exp % 2 = 0
    THEN sqrt_even(x.man, x.exp, int_sqrt(x.man, 0, 8191))
    ELSE sqrt_even(2 * x.man, x.exp - 1, int_sqrt(2 * x.man, 0, 8191))

\* x > 0.0
f32_positive(x) == ~is_nan(x) /\ x.sign = 0 /\ x.man > 0

\* x.clamp(0.0, 255.0) as u8
clamp_as_u8(x) ==
    IF is_nan(x) \/ x.sign = 1 \/ x.man = 0 THEN 0
    ELSE IF x.exp > 0 - 16 THEN 255
    ELSE IF x.exp < 0 - 24 THEN 0
    ELSE x.man \div (2 ^ (0 - x.exp))

(* standardize *)

\* `sum += val` for integer-valued f32 below 2^31: the exact sum rounded to
\* 24 binary digits, which changes it from 2^24 on
add_rounded(sum, val) ==
    IF sum + val < 2 ^ 24 THEN sum + val ELSE f32_to_int(f32_from(sum + val))

\* lines 93-99 for channel i and pixels lo..hi in their order, starting from
\* the sum acc (never negative, and looked at before the range is entered);
\* the range is split in two to keep the recursion shallow
RECURSIVE sum_pixels(_, _, _, _, _)
sum_pixels(rgba, i, acc, lo, hi) ==
    IF acc < 0 \/ lo > hi THEN acc
    ELSE IF lo = hi THEN add_rounded(acc, rgba.data[4 * (lo - 1) + i])
    ELSE sum_pixels(rgba, i,
                    sum_pixels(rgba, i, acc, lo, (lo + hi) \div 2),
                    (lo + hi) \div 2 + 1, hi)

RECURSIVE sum_sq_pixels(_, _, _, _, _)
sum_sq_pixels(rgba, i, acc, lo, hi) ==
    IF acc < 0 \/ lo > hi THEN acc
    ELSE IF lo = hi
    THEN add_rounded(acc, rgba.data[4 * (lo - 1) + i] * rgba.data[4 * (lo - 1) + i])
    ELSE sum_sq_pixels(rgba, i,
                       sum_sq_pixels(rgba, i, acc, lo, (lo + hi) \div 2),
                       (lo + hi) \div 2 + 1, hi)

\* lines 89-99: sum and sum_sq of channel i after the first n pixels
channel_sum(rgba, i, n) == sum_pixels(rgba, i, 0, 1, n)

channel_sum_sq(rgba, i, n) == sum_sq_pixels(rgba, i, 0, 1, n)

\* line 91: total_pixels = (width * height) as f32
total_pixels(rgba) == f32_from(rgba.width * rgba.height)

\* line 105: mean[i] = sum[i] / total_pixels
channel_mean(total, sum) == f32_div(f32_from(sum), total)

\* line 106: variance = (sum_sq[i] / total_pixels) - (mean[i] * mean[i])
channel_variance(total, sum_sq, mean) ==
    f32_sub(f32_div(f32_from(sum_sq), total), f32_mul(mean, mean))

\* line 107: std[i] = variance.sqrt()
channel_std(total, sum_sq, mean) ==
    f32_sqrt(channel_variance(total, sum_sq, mean))

\* the literals 50.0 and 127.0 of line 119
scale_50 == f32_from(50)
offset_127 == f32_from(127)

\* lines 119-120: (((value - mean) / std) * 50.0 + 127.0).clamp(0.0, 255.0)
\* as u8
standardize_value(value, mean, std) ==
    clamp_as_u8(f32_add(f32_mul(f32_div(f32_sub(f32_from(value), mean), std),
                                scale_50),
                        offset_127))

\* lines 117-123: one standardized sample
standardize_byte(value, mean, std) ==
    IF f32_positive(std)
    THEN standardize_value(value, mean, std)
    ELSE value

\* lines 113-127 for one channel: the byte of every value the channel holds
\* (equal values of a channel give equal bytes)
standardize_bytes(values, mean, std) ==
    [value \in values |-> standardize_byte(value, mean, std)] @@ <<>>

\* lines 111-129
standardize_remap(rgba, bytes) ==
    [kind   |-> "Rgba8",
     width  |-> rgba.width,
     height |-> rgba.height,
     data   |-> as_seq([k \in 1..Len(rgba.data) |->
                          bytes[channel_of(k)][rgba.data[k]]])]

\* lines 105-107, 113-127 for a channel of the given values and mean
standardize_around(values, total, sum_sq, mean) ==
    standardize_bytes(values, mean, channel_std(total, sum_sq, mean))

\* lines 89-108 for channel i; n is the number of pixels, total is n as f32
standardize_channel(rgba, i, n, total) ==
    standardize_around(channel_values(rgba, i), total,
                       channel_sum_sq(rgba, i, n),
                       channel_mean(total, channel_sum(rgba, i, n)))

standardize_with(rgba, n, total) ==
    standardize_remap(rgba,
        <<standardize_channel(rgba, 1, n, total),
          standardize_channel(rgba, 2, n, total),
          standardize_channel(rgba, 3, n, total),
          standardize_channel(rgba, 4, n, total)>>)

standardize_of_rgba(rgba) ==
    standardize_with(rgba, rgba.width * rgba.height, total_pixels(rgba))

\* lines 84-130
standardize(img) == standardize_of_rgba(to_rgba8(img))

(* fft.  An f32 is <<v>> or NaN, a complex number is <<re, im>> or NaN;   *)
(* window values are in units of 1/100, complex numbers in units of 1/100  *)
(* of a pixel value.  The transform lengths covered are 1, 2 and 4, whose  *)
(* roots of unity are 1, -1, -i and i, so that every sum is exact.         *)

NaN == <<>>

\* DynamicImage::to_luma8: the luminance of pixel number p (0-based)
luma_u8(img, p) ==
    IF Channels(img.kind) = 1
    THEN sample_u8(img, p + 1)
    ELSE (2126 * sample_u8(img, p * Channels(img.kind) + 1)
          + 7152 * sample_u8(img, p * Channels(img.kind) + 2)
          + 722 * sample_u8(img, p * Channels(img.kind) + 3)) \div 10000

to_luma8(img) ==
    [kind   |-> "Luma8",
     width  |-> img.width,
     height |-> img.height,
     data   |-> as_seq([k \in 1..(img.width * img.height) |->
                          luma_u8(img, k - 1)])]

\* line 143: 0.54 - 0.46 * cos(2 PI x / (width - 1)), in units of 1/100.
\* For width 1 the quotient is 0.0 / 0.0, which is NaN
hamming(x, width) ==
    CASE width = 1 -> NaN
      [] width = 2 -> <<8>>
      [] width = 3 -> IF x = 1 THEN <<100>> ELSE <<8>>
      [] width = 4 -> IF x \in {0, 3} THEN <<8>> ELSE <<77>>

\* line 144: Complex::new(pixel * window, 0.0)
windowed(pixel, window) ==
    IF window = NaN THEN NaN ELSE <<pixel * window[1], 0>>

\* lines 137-148: the rows of windowed samples
fft_input(grayscale) ==
    as_seq([y \in 1..grayscale.height |->
        as_seq([x \in 1..grayscale.width |->
            windowed(grayscale.data[(y - 1) * grayscale.width + x],
                     hamming(x - 1, grayscale.width))])])

\* z * (-i)^e
rotate(z, e) ==
    CASE e % 4 = 0 -> z
      [] e % 4 = 1 -> <<z[2], 0 - z[1]>>
      [] e % 4 = 2 -> <<0 - z[1], 0 - z[2]>>
      [] e % 4 = 3 -> <<0 - z[2], z[1]>>

\* the sum of row[n] * w^((n - 1) * k) for n = 1..m, w = exp(-2 PI i / Len(row))
RECURSIVE dft_sum(_, _, _)
dft_sum(row, k, m) ==
    IF m = 0 THEN <<0, 0>>
    ELSE LET rest == dft_sum(row, k, m - 1)
             term == rotate(row[m], (4 \div Len(row)) * (m - 1) * k)
         IN  <<rest[1] + term[1], rest[2] + term[2]>>

\* Fft::process on one row, of length 1, 2 or 4: every output is a sum
\* over all inputs, so that one NaN makes every output NaN
fft_forward(row) ==
    IF \E n \in 1..Len(row) : row[n] = NaN
    THEN as_seq([k \in 1..Len(row) |-> NaN])
    ELSE as_seq([k \in 1..Len(row) |-> dft_sum(row, k - 1, Len(row))])

\* lines 157-162 and 169-173
transpose(grid) ==
    as_seq([x \in 1..Len(grid[1]) |->
               as_seq([y \in 1..Len(grid) |-> grid[y][x]])])

fft_rows(grid) == as_seq([y \in 1..Len(grid) |-> fft_forward(grid[y])])

\* lines 152-173: the two-dimensional transform
fft_2d(input) == transpose(fft_rows(transpose(fft_rows(input))))

\* norm() squared
norm_sqr(z) == z[1] * z[1] + z[2] * z[2]

\* lines 175-181: the cell norms (squared) that reach max_magnitude.
\* f32::max returns the other operand when one is NaN, so that a NaN
\* magnitude leaves max_magnitude as it was; it starts at 0.0
max_norm_sqr(grid) ==
    max_of({0} \cup {norm_sqr(grid[y][x]) :
                        <<y, x>> \in {c \in (1..Len(grid)) \X (1..Len(grid[1])) :
                                         grid[c[1]][c[2]] /= NaN}})

\* line 191: magnitude / max_magnitude, where magnitude = log10(norm + 1)
\* is 0.0 exactly when the norm is 0: NaN, <<0>>, <<1>>, or for a value
\* strictly between the two squared norms it comes from.  Norms are compared
\* as real numbers
magnitude_ratio(cell, max_sqr) ==
    IF cell = NaN THEN NaN
    ELSE IF max_sqr = 0 THEN NaN                        \* 0.0 / 0.0
    ELSE IF norm_sqr(cell) = max_sqr THEN <<1>>
    ELSE IF norm_sqr(cell) = 0 THEN <<0>>
    ELSE <<norm_sqr(cell), max_sqr>>

\* the byte of a ratio strictly between 0 and 1: one of 0..254, fixed by
\* the f32 logarithms, which are not computed here
BYTE_BETWEEN == 0 - 1

\* line 191: (ratio * 255.0) as u8; NaN as u8 is 0
normalized_byte(ratio) ==
    IF ratio = NaN THEN 0
    ELSE IF Len(ratio) = 2 THEN BYTE_BETWEEN
    ELSE ratio[1] * 255

\* alternative to quadrant_swap: the shift is the half rounded up
quadrant_swap_rounded_up(n, size) == (n + (size + 1) \div 2) % size

\* lines 183-195: cell (x, y) of the spectrum is put at (nx, ny)
quadrant_swap(n, size) == (n + size \div 2) % size

\* the cell that put_pixel writes to position n of an axis (line 193)
swapped_from(n, size) == CHOOSE m \in 0..(size - 1) : quadrant_swap(m, size) = n

fft_image(spectrum, width, height, max_sqr) ==
    [kind   |-> "Luma8",
     width  |-> width,
     height |-> height,
     data   |-> as_seq([k \in 1..(width * height) |->
                   normalized_byte(
                       magnitude_ratio(
                           spectrum[swapped_from((k - 1) \div width, height) + 1]
                                   [swapped_from((k - 1) % width, width) + 1],
                           max_sqr))])]

fft_of_spectrum(spectrum, width, height) ==
    fft_image(spectrum, width, height, max_norm_sqr(spectrum))

fft_of_luma(grayscale) ==
    fft_of_spectrum(fft_2d(fft_input(grayscale)),
                    grayscale.width, grayscale.height)

\* lines 132-198
fft(img) == fft_of_luma(to_luma8(img))

----------------------------------------------------------------------------
(* update_texture *)

\* lines 1063-1069 of update_texture
normalized_img(working_img, normalization) ==
    CASE normalization = "None"      -> working_img
      [] normalization = "MinMax"    -> min_max_normalize(working_img)
      [] normalization = "LogMinMax" -> log_min_max_normalize(working_img)
      [] normalization = "Standard"  -> standardize(working_img)
      [] normalization = "FFT"       -> fft(working_img)

\* lines 1074-1086: the channel filter on the RGBA bytes
filtered_pixels(rgba8, channel) ==
    as_seq([k \in 1..Len(rgba8.data) |->
        CASE channel = "RGB"   -> rgba8.data[k]
          [] channel = "Red"   ->
               IF channel_of(k) \in {1, 4} THEN rgba8.data[k] ELSE 0
          [] channel = "Green" ->
               IF channel_of(k) \in {2, 4} THEN rgba8.data[k] ELSE 0
          [] channel = "Blue"  ->
               IF channel_of(k) \in {3, 4} THEN rgba8.data[k] ELSE 0])

\* lines 1071-1091: the ColorImage made of the normalized image
color_image(normalized, channel) ==
    [size   |-> <<normalized.width, normalized.height>>,
     pixels |-> filtered_pixels(to_rgba8(normalized), channel)]

\* The texture update_texture uploads: the inputs that determine it and
\* the ColorImage.  The images of the model are small enough for
\* base_scale = 1.0, so that working_img is the image itself (line 1060)
render_texture(self) ==
    [image |-> Unwrap(self.image),
     final_scale |-> self.base_scale * self.scale,
     normalization |-> self.normalization,
     channel |-> self.channel,
     color_image |-> color_image(normalized_img(Unwrap(self.image),
                                                self.normalization),
                                 self.channel)]

\* a variant that regenerates on every change of the scale
update_texture_on_any_scale_change(self) ==
    IF self.image = None THEN self
    ELSE LET needs_regenerate ==
                 \/ self.texture = None
                 \/ self.last_normalization /= self.normalization
                 \/ self.last_channel /= self.channel
                 \/ self.last_texture_scale /= self.scale
         IN  IF ~needs_regenerate THEN self
             ELSE [self EXCEPT !.texture = Some(render_texture(self)),
                               !.last_texture_scale = self.scale,
                               !.last_normalization = self.normalization,
                               !.last_channel = self.channel]

\* lines 1033-1103; the scales of the model are at least 1.0, so that
\* the image is not resized (line 1052)
update_texture(self) ==
    IF self.image = None THEN self
    ELSE LET needs_regenerate ==
                 \/ self.texture = None
                 \/ self.last_normalization /= self.normalization
                 \/ self.last_channel /= self.channel
                 \/ Abs(self.last_texture_scale - self.scale) * 10 > 2 * ScaleOne
         IN  IF ~needs_regenerate THEN self
             ELSE [self EXCEPT !.texture = Some(render_texture(self)),
                               !.last_texture_scale = self.scale,
                               !.last_normalization = self.normalization,
                               !.last_channel = self.channel]

----------------------------------------------------------------------------
(* calculate_histogram.  A channel's histogram, vec![0u32; 256], is kept   *)
(* as the function from the buckets that were incremented to their counts; *)
(* every other bucket holds 0.                                             *)

\* the bucket of one retained sample (lines 950-955)
fp_bin(value, min_val, max_val) ==
    IF (max_val - min_val) * EpsilonInv > SampleDen
    THEN IF value <= min_val THEN 0                   \* clamp(0.0, 1.0)
         ELSE IF value >= max_val THEN 255
         ELSE ((value - min_val) * 255) \div (max_val - min_val)
    ELSE 127                                          \* (0.5 * 255.0) as usize

\* the histogram that results from incrementing the buckets bins[1], ...
count_bins(bins) ==
    [b \in {bins[i] : i \in 1..Len(bins)} |->
        Cardinality({i \in 1..Len(bins) : bins[i] = b})]

\* chunks(channels) with chunk.len() == channels: the complete chunks
complete_chunks(fp_data, channels) == Len(fp_data) \div channels

\* lines 932-994: the three histograms from the retained float buffer
fp_histograms(fp_data, fp_channels, min_val, max_val) ==
    IF fp_channels \in {1, 3, 4}
    THEN [channel \in 1..3 |->
            count_bins(
              [k \in 1..complete_chunks(fp_data, fp_channels) |->
                 fp_bin(fp_data[(k - 1) * fp_channels
                                + (IF fp_channels = 1 THEN 1 ELSE channel)],
                        min_val, max_val)])]
    ELSE [channel \in 1..3 |-> count_bins(<<>>)]

\* lines 997-1019: the three histograms from the display image
image_histograms(image) ==
    [channel \in 1..3 |->
        count_bins(
          [k \in 1..(image.width * image.height) |->
             get_pixel(image, (k - 1) % image.width,
                       (k - 1) \div image.width)[channel]])]

\* a bucket outside 0..255 would be an index out of bounds
histograms_in_bounds(histograms) ==
    \A channel \in 1..3 : DOMAIN histograms[channel] \subseteq 0..255

\* a variant that keeps the histograms to itself
store_histograms_unpublished(self, histograms) ==
    [self EXCEPT !.histogram_data = Some(histograms),
                 !.histogram_needs_update = FALSE]

\* lines 1022-1029
store_histograms(self, histograms) ==
    [self EXCEPT !.histogram_data = Some(histograms),
                 !.histogram_shared_data.histograms = Some(histograms),
                 !.histogram_needs_update = FALSE]

calculate_histogram(self) ==
    IF self.image = None THEN self
    ELSE IF self.original_fp_data /= None /\ self.original_fp_channels /= None
    THEN store_histograms(self,
             fp_histograms(
                 Unwrap(self.original_fp_data),
                 Unwrap(self.original_fp_channels),
                 IF self.original_data_range /= None
                 THEN Unwrap(self.original_data_range)[1]
                 ELSE fold_min(Unwrap(self.original_fp_data)),
                 IF self.original_data_range /= None
                 THEN Unwrap(self.original_data_range)[2]
                 ELSE fold_max(Unwrap(self.original_fp_data))))
    ELSE store_histograms(self, image_histograms(Unwrap(self.image)))

----------------------------------------------------------------------------
(* The pixel tool of the central panel (lines 1394-1510).  The pointer is  *)
(* <<x, y>> in units of 1/PointerDen pixel, measured from the centre of    *)
(* the panel; the image is drawn centred there, moved by self.offset.      *)

\* base_scale * scale, in units of 1 / ScaleOne^2
final_scale(self) == self.base_scale * self.scale

\* the display size of n image pixels, in pointer units times ScaleOne^2
display_size(self, n) == n * PointerDen * final_scale(self)

\* twice (pointer_pos - image_rect.min) along one axis, times ScaleOne^2,
\* for an image of n pixels moved by offset pixels
relative_pos(self, n, offset, pointer_pos) ==
    2 * (pointer_pos - offset * PointerDen) * ScaleOne * ScaleOne
      + display_size(self, n)

\* Rect::contains along one axis: both edges belong to the rectangle
contains(self, n, offset, pointer_pos) ==
    /\ 0 <= relative_pos(self, n, offset, pointer_pos)
    /\ relative_pos(self, n, offset, pointer_pos) <= 2 * display_size(self, n)

\* (relative_pos / final_scale) as u32
image_coordinate(self, n, offset, pointer_pos) ==
    relative_pos(self, n, offset, pointer_pos)
        \div (2 * PointerDen * final_scale(self))

\* lines 1496-1509
clear_pixel_info(self) ==
    [self EXCEPT !.pixel_info = None, !.pixel_info_fp = None,
                 !.pixel_info_channels = None, !.hover_pos = None]

\* lines 1436-1468: a sample of the retained float buffer, if the index of
\* its last component read is inside the buffer
sample_fp(self, image_x, image_y, fp_data, fp_width, fp_channels) ==
    LET pixel_idx == image_y * fp_width + image_x
        base_idx  == pixel_idx * fp_channels
    IN  CASE fp_channels = 1 ->
               IF pixel_idx < Len(fp_data)
               THEN [self EXCEPT
                       !.pixel_info_fp =
                           Some(<<image_x, image_y, fp_data[pixel_idx + 1],
                                  fp_data[pixel_idx + 1],
                                  fp_data[pixel_idx + 1]>>),
                       !.pixel_info_channels = Some(1)]
               ELSE self
          [] fp_channels \in {3, 4} ->
               IF base_idx + 2 < Len(fp_data)
               THEN [self EXCEPT
                       !.pixel_info_fp =
                           Some(<<image_x, image_y, fp_data[base_idx + 1],
                                  fp_data[base_idx + 2],
                                  fp_data[base_idx + 3]>>),
                       !.pixel_info_channels = Some(fp_channels)]
               ELSE self
          [] OTHER ->
               [self EXCEPT
                  !.pixel_info =
                      Some(<<image_x, image_y>>
                           \o SubSeq(get_pixel(Unwrap(self.image),
                                               image_x, image_y), 1, 3)),
                  !.pixel_info_fp = None,
                  !.pixel_info_channels = None]

\* lines 1479-1492: a pixel of the display image
sample_display(self, image_x, image_y) ==
    [self EXCEPT
       !.pixel_info =
           Some(<<image_x, image_y>>
                \o SubSeq(get_pixel(Unwrap(self.image), image_x, image_y),
                          1, 3)),
       !.pixel_info_fp = None,
       !.pixel_info_channels = Some(Channels(Unwrap(self.image).kind))]

\* lines 1429-1495: the query at (image_x, image_y); nothing is assigned
\* when the coordinate is not inside the image
sample_pixel(self, image_x, image_y, pointer_pos) ==
    IF image_x < Unwrap(self.image).width /\ image_y < Unwrap(self.image).height
    THEN [(IF /\ self.original_fp_data /= None
              /\ self.original_fp_dimensions /= None
              /\ self.original_fp_channels /= None
           THEN sample_fp(self, image_x, image_y,
                          Unwrap(self.original_fp_data),
                          Unwrap(self.original_fp_dimensions)[1],
                          Unwrap(self.original_fp_channels))
           ELSE sample_display(self, image_x, image_y))
          EXCEPT !.hover_pos = Some(pointer_pos)]
    ELSE self

\* lines 1420-1510
pixel_tool(self, pointer_pos) ==
    IF self.image = None \/ self.texture = None \/ ~self.show_pixel_tool
    THEN self
    ELSE IF pointer_pos = None THEN clear_pixel_info(self)
    ELSE IF /\ contains(self, Unwrap(self.image).width, self.offset[1],
                        Unwrap(pointer_pos)[1])
            /\ contains(self, Unwrap(self.image).height, self.offset[2],
                        Unwrap(pointer_pos)[2])
    THEN sample_pixel(self,
             image_coordinate(self, Unwrap(self.image).width,
                              self.offset[1], Unwrap(pointer_pos)[1]),
             image_coordinate(self, Unwrap(self.image).height,
                              self.offset[2], Unwrap(pointer_pos)[2]),
             Unwrap(pointer_pos))
    ELSE clear_pixel_info(self)

\* the image coordinate <<image_x, image_y>> the pixel tool computes in a
\* frame that ends with the application as self (lines 1420-1426), or None
\* when the tool is off, nothing is drawn or the pointer is not on the image
queried(self, pointer_pos) ==
    IF /\ self.image /= None
       /\ self.texture /= None
       /\ self.show_pixel_tool
       /\ pointer_pos /= None
       /\ contains(self, Unwrap(self.image).width, self.offset[1],
                   Unwrap(pointer_pos)[1])
       /\ contains(self, Unwrap(self.image).height, self.offset[2],
                   Unwrap(pointer_pos)[2])
    THEN Some(<<image_coordinate(self, Unwrap(self.image).width,
                                 self.offset[1], Unwrap(pointer_pos)[1]),
                image_coordinate(self, Unwrap(self.image).height,
                                 self.offset[2], Unwrap(pointer_pos)[2])>>)
    ELSE None

----------------------------------------------------------------------------
(* eframe::App::update: one frame.  input is what egui reports in the      *)
(* frame: the dropped files, the arrow keys pressed, the file picked in    *)
(* the Open Image dialog, the normalization radio button and the channel   *)
(* entry clicked, the position the scale slider is dragged to (each None   *)
(* when nothing of the kind happened).  The scroll wheel is at rest in     *)
(* every frame (raw_scroll_delta.y = 0.0), so that zoom_info stays None    *)
(* and lines 1340-1391 do nothing.                                         *)

no_input ==
    [dropped |-> <<>>, keys |-> {}, picked |-> None,
     normalization |-> None, channel |-> None,
     pixel_tool_clicked |-> FALSE, histogram_clicked |-> FALSE,
     pointer |-> None, slider |-> None]

\* lines 1108-1122: load the first dropped file that loads
RECURSIVE handle_dropped_files(_, _, _)
\* m1 is the program after one dropped file was tried
after_dropped_file(m1, rest, disk) ==
    IF last_call_ok(m1) THEN m1 ELSE handle_dropped_files(m1, rest, disk)

handle_dropped_files(m, files, disk) ==
    IF files = <<>> \/ ~m.alive THEN m
    ELSE after_dropped_file(call_load_image(m, Head(files), disk),
                            Tail(files), disk)

\* lines 1131-1143
arrow_key(m, pressed, direction, disk) ==
    IF pressed THEN navigate_to_adjacent_image(m, direction, disk) ELSE m

handle_keyboard_navigation(m, keys, disk) ==
    arrow_key(arrow_key(m, "ArrowLeft" \in keys, -1, disk),
              "ArrowRight" \in keys, 1, disk)

\* lines 1181-1227
open_image_button(m, picked, disk) ==
    IF picked = None THEN m ELSE call_load_image(m, Unwrap(picked), disk)

\* lines 1250-1263
normalization_row(self, choice) ==
    IF IsSome(choice) /\ Unwrap(choice) /= self.normalization
    THEN [self EXCEPT !.normalization = Unwrap(choice),
                      !.texture_needs_update = TRUE,
                      !.histogram_needs_update = TRUE]
    ELSE self

\* lines 1266-1281
channel_row(self, choice) ==
    IF IsSome(choice) /\ Unwrap(choice) /= self.channel
    THEN [self EXCEPT !.channel = Unwrap(choice),
                      !.texture_needs_update = TRUE,
                      !.histogram_needs_update = TRUE]
    ELSE self

\* line 1285: the Pixel Info checkbox
pixel_tool_checkbox(self, clicked) ==
    IF clicked THEN [self EXCEPT !.show_pixel_tool = ~self.show_pixel_tool]
    ELSE self

\* lines 1289-1305: the Histogram button
histogram_button(self, clicked) ==
    IF ~clicked THEN self
    ELSE IF self.show_histogram
    THEN [self EXCEPT !.show_histogram = FALSE, !.histogram_window_id = None]
    ELSE [(IF self.histogram_needs_update
           THEN calculate_histogram(self) ELSE self)
          EXCEPT !.show_histogram = TRUE,
                 !.histogram_window_id = Some("histogram_window")]

\* lines 1614-1664: the histogram window
histogram_window(self) ==
    IF self.show_histogram /\ self.image /= None
    THEN IF self.histogram_window_id /= None /\ self.histogram_needs_update
         THEN calculate_histogram(self)
         ELSE self
    ELSE [self EXCEPT !.histogram_window_id = None]

\* lines 1666-1673: the histogram window has asked to be closed
close_handshake(self) ==
    IF self.histogram_shared_data.close_requested
    THEN [self EXCEPT !.show_histogram = FALSE,
                      !.histogram_window_id = None,
                      !.histogram_shared_data.close_requested = FALSE]
    ELSE self

\* lines 1334-1337
texture_refresh(self) ==
    IF (self.texture = None \/ self.texture_needs_update) /\ self.image /= None
    THEN [update_texture(self) EXCEPT !.texture_needs_update = FALSE]
    ELSE self

\* lines 1591-1610: the scale slider, shown while an image is loaded;
\* changed() holds when the drag gave self.scale another value
scale_slider(self, value) ==
    IF self.image /= None /\ IsSome(value) /\ Unwrap(value) /= self.scale
    THEN [self EXCEPT !.scale = Unwrap(value),
                      !.texture_needs_update = TRUE]
    ELSE self

\* the frame after its load requests: the top panel's rows, the texture
top_panel_and_texture(m, input) ==
    IF ~m.alive THEN m
    ELSE [m EXCEPT !.app =
             texture_refresh(
                 histogram_button(
                     pixel_tool_checkbox(
                         channel_row(
                             normalization_row(m.app, input.normalization),
                             input.channel),
                         input.pixel_tool_clicked),
                     input.histogram_clicked))]

\* the rest of the frame: the pixel tool of the central panel, the scale
\* slider, the histogram window and its close request
central_panel_and_windows(m, input) ==
    IF ~m.alive THEN m
    ELSE [m EXCEPT !.app =
             close_handshake(
                 histogram_window(
                     scale_slider(pixel_tool(m.app, input.pointer),
                                  input.slider)))]

update(m, input, disk) ==
    central_panel_and_windows(
        top_panel_and_texture(
            open_image_button(
                handle_keyboard_navigation(
                    handle_dropped_files(m, input.dropped, disk),
                    input.keys, disk),
                input.picked, disk),
            input),
        input)

----------------------------------------------------------------------------
(* The files of the session specification: two folders *)

NoTiff ==
    [opened |-> FALSE, width |-> 1, height |-> 1, colortype |-> <<"Gray", 8>>,
     decoded |-> [type |-> "Err", data |-> <<>>]]

Tiff(width, height, colortype, type, data) ==
    [opened |-> TRUE, width |-> width, height |-> height,
     colortype |-> colortype, decoded |-> [type |-> type, data |-> data]]

Image(kind, width, height, data) ==
    [kind |-> kind, width |-> width, height |-> height, data |-> data]

\* a file the image crate decodes
Decodable(img) == [generic |-> Some(img), tiff |-> NoTiff]
\* a file the image crate rejects; t is what the tiff crate makes of it
Undecodable(t) == [generic |-> None, tiff |-> t]

Disk ==
    Path("A", 1, Some("png")) :>
        Decodable(Image("Rgb8", 2, 1, <<10, 20, 30, 40, 50, 60>>)) @@
    Path("A", 2, Some("jpg")) :> Undecodable(NoTiff) @@
    Path("A", 3, Some("TIF")) :>
        Undecodable(Tiff(2, 1, <<"Gray", 32>>, "F32", <<0, 2>>)) @@
    Path("A", 4, Some("tiff")) :>
        Undecodable(Tiff(1, 1, <<"Palette", 8>>, "U8", <<7>>)) @@
    Path("A", 5, Some("tif")) :>
        Decodable(Image("Luma8", 1, 2, <<5, 250>>)) @@
    Path("A", 6, Some("dat")) :>
        Undecodable(Tiff(1, 1, <<"Gray", 32>>, "F32", <<1>>)) @@
    Path("A", 7, None) :>
        Undecodable(Tiff(1, 1, <<"Gray", 32>>, "F32", <<1>>)) @@
    Path("B", 1, Some("PNG")) :>
        Decodable(Image("Rgba8", 1, 1, <<1, 2, 3, 255>>))

\* lists of at most MaxDrops dropped files
DropLists ==
    UNION {[1..n -> DOMAIN fs] : n \in 1..MaxDrops}

----------------------------------------------------------------------------
(* The files of the ingestion specification: every TIFF of the bounds *)

\* sample values: one below 0.0, and up to MaxSample / SampleDen, above 1.0
Samples == (0 - 1)..MaxSample

\* A sample sequence of length n: the background value c everywhere but at
\* position i, which holds x, and position j, which holds y (position 0 is
\* no position)
SampleSeq(n, c, i, x, j, y) ==
    [k \in 1..n |-> IF k = i THEN x ELSE IF k = j THEN y ELSE c]

\* decoded lengths tried for a buffer that needs `need` samples: one sample
\* short, exact, one sample over, one pixel over
LengthsFor(need, channels) ==
    {need - 1, need, need + 1, need + channels} \cap 0..MaxLen

ColorSpaces == {"Gray", "RGB", "RGBA", "Palette", "GrayA", "CMYK", "YCbCr"}
BitDepths == {1, 8, 16, 32, 64}
DecodedTypes == {"U8", "U16", "U32", "F32", "F64"}

SpaceChannels(space) ==
    CASE space = "Gray" -> 1 [] space = "RGB" -> 3 [] space = "RGBA" -> 4

\* the DecodingResult the tiff crate gives a recognized colour type
ExpectedType(bits) ==
    CASE bits = 8 -> "U8" [] bits = 16 -> "U16" [] bits = 32 -> "F32"

Recognized == {"Gray", "RGB", "RGBA"} \X {8, 16, 32}

IntegerTiffs ==
    UNION {{Tiff(d[1], d[2], ct, ExpectedType(ct[2]), [i \in 1..n |-> v]) :
               <<n, v>> \in LengthsFor(d[1] * d[2] * SpaceChannels(ct[1]),
                                       SpaceChannels(ct[1])) \X (0..MaxSample)} :
           <<ct, d>> \in ({"Gray", "RGB", "RGBA"} \X {8, 16})
                         \X ((1..MaxWidth) \X (1..MaxHeight))}

\* a recognized colour type decoded to another sample type
MismatchedTiffs ==
    {Tiff(1, 1, ct, type, [i \in 1..SpaceChannels(ct[1]) |-> 0]) :
        <<ct, type>> \in
            {x \in Recognized \X DecodedTypes : x[2] /= ExpectedType(x[1][2])}}

\* a colour type outside the recognized matrix
UnsupportedTiffs ==
    {Tiff(1, 1, ct, type, <<0>>) :
        <<ct, type>> \in ((ColorSpaces \X BitDepths) \ Recognized)
                         \X DecodedTypes}

\* the container does not open, or read_image fails
FailingTiffs ==
    {NoTiff} \cup {Tiff(1, 1, ct, "Err", <<>>) : ct \in ColorSpaces \X BitDepths}

\* the TIFFs of the bounds that are not 32-bit float buffers
OtherTiffs ==
    IntegerTiffs \cup MismatchedTiffs \cup UnsupportedTiffs \cup FailingTiffs

IngestPath == Path("in", 1, Some("tif"))

----------------------------------------------------------------------------
(* Steps *)

\* the program at the start of a step, no load_image call made yet
Entering(self) == [app |-> self, alive |-> TRUE, last |-> None]

\* the step ends with the program as m
Becomes(m) ==
    /\ app' = m.app
    /\ alive' = m.alive
    /\ last_load' = m.last

\* main(), lines 1722-1733
initial_image(m, arg, disk) ==
    IF arg = None THEN m ELSE call_load_image(m, Unwrap(arg), disk)

\* main(): build the application and load the file named on the command
\* line, if any
Main(arg) ==
    /\ ~started
    /\ started' = TRUE
    /\ Becomes(initial_image(Entering(default_app), arg, fs))
    /\ last_query' = None
    /\ UNCHANGED <<fs, fft_loop>>

Frame(input) ==
    /\ started
    /\ alive
    /\ Becomes(update(Entering(app), input, fs))
    /\ last_query' = queried(app', input.pointer)
    /\ UNCHANGED <<fs, started, fft_loop>>

Start == \E arg \in {None} \cup {Some(p) : p \in DOMAIN fs} : Main(arg)

DropFiles == \E files \in DropLists : Frame([no_input EXCEPT !.dropped = files])

PressArrowKeys ==
    \E keys \in (SUBSET {"ArrowLeft", "ArrowRight"}) \ {{}} :
        Frame([no_input EXCEPT !.keys = keys])

OpenImage ==
    \E p \in DOMAIN fs : Frame([no_input EXCEPT !.picked = Some(p)])

SelectNormalization ==
    \E n \in NormalizationType :
        Frame([no_input EXCEPT !.normalization = Some(n)])

SelectChannel ==
    \E c \in ChannelType : Frame([no_input EXCEPT !.channel = Some(c)])

Init ==
    /\ app = default_app
    /\ fs = Disk
    /\ started = FALSE
    /\ alive = TRUE
    /\ last_load = None
    /\ last_query = None
    /\ fft_loop = None

Next ==
    \/ Start
    \/ DropFiles
    \/ PressArrowKeys
    \/ OpenImage
    \/ SelectNormalization
    \/ SelectChannel

Spec == Init /\ [][Next]_vars

\* Ingestion alone: one TIFF of the bounds, which the image crate rejects,
\* is named on the command line
InitIngest ==
    /\ app = default_app
    /\ \/ \E space \in {"Gray", "RGB", "RGBA"},
              width \in 1..MaxWidth, height \in 1..MaxHeight :
            \E n \in LengthsFor(width * height * SpaceChannels(space),
                                SpaceChannels(space)) :
              \E c \in Samples, i \in 0..n, x \in Samples,
                 j \in 0..n, y \in Samples :
                  fs = IngestPath :>
                         Undecodable(Tiff(width, height, <<space, 32>>, "F32",
                                          SampleSeq(n, c, i, x, j, y)))
       \/ \E t \in OtherTiffs : fs = IngestPath :> Undecodable(t)
    /\ started = FALSE
    /\ alive = TRUE
    /\ last_load = None
    /\ last_query = None
    /\ fft_loop = None

Ingest == Main(Some(IngestPath))

SpecIngest == InitIngest /\ [][Ingest]_vars

\* The pixel tool alone: a folder of integer and float images, the Open
\* Image dialog, the Pixel Info checkbox and the pointer
PixelDisk ==
    Path("P", 1, Some("png")) :>
        Decodable(Image("Rgb8", 2, 1, <<10, 20, 30, 40, 50, 60>>)) @@
    Path("P", 2, Some("png")) :>
        Decodable(Image("Luma8", 1, 2, <<5, 250>>)) @@
    Path("P", 3, Some("tif")) :>
        Undecodable(Tiff(2, 2, <<"Gray", 32>>, "F32", <<-1, 0, 1, 3>>)) @@
    Path("P", 4, Some("tif")) :>
        Undecodable(Tiff(2, 1, <<"RGB", 32>>, "F32", <<-1, 0, 1, 2, 3, 0>>)) @@
    Path("P", 5, Some("tif")) :>
        Undecodable(Tiff(1, 2, <<"RGBA", 32>>, "F32",
                         <<0, 1, 2, 2, 3, -1, 0, 1>>)) @@
    Path("P", 6, Some("jpg")) :> Undecodable(NoTiff)

\* i.pointer.interact_pos(): no pointer, or a position on the panel
Pointers ==
    {None} \cup {Some(<<x, y>>) : x, y \in (0 - MaxPointer)..MaxPointer}

InitPixel ==
    /\ app = default_app
    /\ fs = PixelDisk
    /\ started = FALSE
    /\ alive = TRUE
    /\ last_load = None
    /\ last_query = None
    /\ fft_loop = None

\* the pointer moves; nothing else happens in the frame
MovePointer ==
    \E pointer_pos \in Pointers :
        Frame([no_input EXCEPT !.pointer = pointer_pos])

\* the Pixel Info checkbox, in the top panel, is clicked
TogglePixelTool == Frame([no_input EXCEPT !.pixel_tool_clicked = TRUE])

\* a file is picked in the Open Image dialog while the pointer rests where
\* the last query left it
OpenImageUnderPointer ==
    \E p \in DOMAIN fs :
        Frame([no_input EXCEPT !.picked = Some(p), !.pointer = app.hover_pos])

NextPixel ==
    \/ Start
    \/ MovePointer
    \/ TogglePixelTool
    \/ OpenImageUnderPointer

SpecPixel == InitPixel /\ [][NextPixel]_vars

\* The histogram of an ingested TIFF: the TIFF of the ingestion bounds is
\* named on the command line and the Histogram button is clicked
ClickHistogram == Frame([no_input EXCEPT !.histogram_clicked = TRUE])

NextHistogram ==
    \/ Ingest
    \/ ClickHistogram

SpecHistogram == InitIngest /\ [][NextHistogram]_vars

\* The normalizations alone: one image of the bounds is named on the
\* command line and the radio buttons None, Min-Max, Log Min-Max and
\* Standardize are clicked
TransformPath == Path("in", 1, Some("png"))

ImageKinds == {"Luma8", "Rgb8", "Rgba8", "Luma16"}

\* the stored sample of level v: 16-bit samples go in steps of half an
\* 8-bit level
stored_sample(kind, v) == IF kind = "Luma16" THEN 128 * v ELSE v

\* An image whose samples are c, but for x at position i and y at position
\* j
TransformImage(kind, width, height, c, i, x, j, y) ==
    Image(kind, width, height,
          [k \in 1..(width * height * Channels(kind)) |->
              stored_sample(kind,
                  SampleSeq(width * height * Channels(kind),
                            c, i, x, j, y)[k])])

\* The image is one row or a square; the background c is 0 or 1; position
\* i is no position or a sample of the first pixel; position j is no
\* position, the next sample, or the same channel of the next pixel
InitNormalize ==
    /\ app = default_app
    /\ \E kind \in ImageKinds, width \in 1..MaxSide :
         \E height \in {1, width},
            c \in 0..1, x \in 0..MaxByte, y \in 0..MaxByte,
            i \in 0..Channels(kind) :
           \E j \in {0, i + 1, i + Channels(kind)} :
               fs = TransformPath :>
                      Decodable(TransformImage(kind, width, height,
                                               c, i, x, j, y))
    /\ started = FALSE
    /\ alive = TRUE
    /\ last_load = None
    /\ last_query = None
    /\ fft_loop = None

OpenTransformImage == Main(Some(TransformPath))

SelectNormalizer ==
    \E n \in NormalizationType \ {"FFT"} :
        Frame([no_input EXCEPT !.normalization = Some(n)])

NextNormalize ==
    \/ OpenTransformImage
    \/ SelectNormalizer

SpecNormalize == InitNormalize /\ [][NextNormalize]_vars

(* Standardize on one-row images of some hundred pixels, where sum_sq      *)
(* passes 2^24 (SpecStandardize) *)

\* One row of WideMin..WideMax gray pixels, every sample one of the
\* WideValues greatest bytes, the first sample that byte or 0
InitStandardize ==
    /\ app = default_app
    /\ \E width \in WideMin..WideMax, c \in (256 - WideValues)..255 :
         \E x \in {c, 0} :
             fs = TransformPath :>
                    Decodable(TransformImage("Luma8", width, 1, c, 1, x, 0, 0))
    /\ started = FALSE
    /\ alive = TRUE
    /\ last_load = None
    /\ last_query = None
    /\ fft_loop = None

SelectStandardize ==
    Frame([no_input EXCEPT !.normalization = Some("Standard")])

NextStandardize ==
    \/ OpenTransformImage
    \/ SelectStandardize

SpecStandardize == InitStandardize /\ [][NextStandardize]_vars

(* The spectral view on images whose sides are 1, 2 or 4 (SpecSpectrum) *)

FftSides == {1, 2, 4}

\* A gray or RGB image of samples c, but for x at position i
InitSpectrum ==
    /\ app = default_app
    /\ \E kind \in {"Luma8", "Rgb8"}, width \in FftSides, height \in FftSides :
         \E c \in 0..1, x \in 0..MaxByte, i \in 0..Channels(kind) :
             fs = TransformPath :>
                    Decodable(TransformImage(kind, width, height, c, i, x, 0, 0))
    /\ started = FALSE
    /\ alive = TRUE
    /\ last_load = None
    /\ last_query = None
    /\ fft_loop = None

SelectSpectrum ==
    Frame([no_input EXCEPT !.normalization = Some("FFT")])

NextSpectrum ==
    \/ OpenTransformImage
    \/ SelectSpectrum

SpecSpectrum == InitSpectrum /\ [][NextSpectrum]_vars

----------------------------------------------------------------------------
(* The spectral view of an image and of a cyclic shift of it (SpecShift) *)

ShiftedPath == Path("in", 2, Some("png"))

\* the gray image img moved cyclically by dx columns and dy rows
shift_image(img, dx, dy) ==
    Image(img.kind, img.width, img.height,
          [k \in 1..(img.width * img.height) |->
              img.data[(((k - 1) \div img.width + img.height - dy) % img.height)
                         * img.width
                       + ((((k - 1) % img.width) + img.width - dx) % img.width)
                       + 1]])

\* A gray image of background c with one or two neighbouring samples 1 - c,
\* and its shift by (dx, dy), which is not (0, 0)
InitShift ==
    /\ app = default_app
    /\ \E width \in FftSides, height \in FftSides, c \in 0..1 :
         \E i \in 1..(width * height), dx \in 0..(width - 1),
            dy \in 0..(height - 1) :
           \E j \in {0, i + 1} :
              /\ <<dx, dy>> /= <<0, 0>>
              /\ fs = (TransformPath :>
                         Decodable(TransformImage("Luma8", width, height,
                                                  c, i, 1 - c, j, 1 - c)))
                      @@ (ShiftedPath :>
                         Decodable(shift_image(
                             TransformImage("Luma8", width, height,
                                            c, i, 1 - c, j, 1 - c),
                             dx, dy)))
    /\ started = FALSE
    /\ alive = TRUE
    /\ last_load = None
    /\ last_query = None
    /\ fft_loop = None

\* the Open Image button with the shifted file picked
OpenShiftedImage == Frame([no_input EXCEPT !.picked = Some(ShiftedPath)])

NextShift ==
    \/ OpenTransformImage
    \/ SelectSpectrum
    \/ OpenShiftedImage

SpecShift == InitShift /\ [][NextShift]_vars

----------------------------------------------------------------------------
(* The texture over a session of loads, mode and channel changes and moves *)
(* of the scale slider (SpecTexture)                                       *)

TextureDisk ==
    Path("T", 1, Some("png")) :>
        Decodable(Image("Rgb8", 2, 1, <<10, 20, 30, 40, 50, 60>>)) @@
    Path("T", 2, Some("png")) :>
        Decodable(Image("Luma8", 1, 2, <<5, 250>>)) @@
    Path("T", 3, Some("jpg")) :> Undecodable(NoTiff)

\* the positions the slider is dragged to, in units of 1 / ScaleOne
SliderPositions == {ScaleOne + k * SliderStep : k \in 0..MaxSlider}

InitTexture ==
    /\ app = default_app
    /\ fs = TextureDisk
    /\ started = FALSE
    /\ alive = TRUE
    /\ last_load = None
    /\ last_query = None
    /\ fft_loop = None

MoveSlider ==
    \E value \in SliderPositions :
        Frame([no_input EXCEPT !.slider = Some(value)])

\* a frame in which egui reports nothing
Redraw == Frame(no_input)

NextTexture ==
    \/ Start
    \/ OpenImage
    \/ SelectNormalization
    \/ SelectChannel
    \/ MoveSlider
    \/ Redraw

SpecTexture == InitTexture /\ [][NextTexture]_vars

----------------------------------------------------------------------------
(* A folder walked with the Right key (SpecRepeatedRight).  The folder     *)
(* holds 1..MaxFolder files with a supported extension; any of them may    *)
(* fail to decode.  update runs once per frame for as long as the window   *)
(* is open, and the user goes on pressing the key: both steps are weakly   *)
(* fair.  The fairness of PressRight is written out, with the condition    *)
(* under which the frame changes the state in place of ENABLED.            *)

FolderPath(k) == Path("N", k, Some("png"))

\* file k decodes to a picture of its own
FolderFile(k, broken) ==
    IF k \in broken THEN Undecodable(NoTiff)
    ELSE Decodable(Image("Luma8", 1, 1, <<k>>))

InitFolder ==
    /\ app = default_app
    /\ \E n \in 1..MaxFolder : \E broken \in SUBSET (1..n) :
          fs = [p \in {FolderPath(k) : k \in 1..n} |->
                   FolderFile(p.name, broken)]
    /\ started = FALSE
    /\ alive = TRUE
    /\ last_load = None
    /\ last_query = None
    /\ fft_loop = None

PressRight == Frame([no_input EXCEPT !.keys = {"ArrowRight"}])

\* the frame that ends with the program as m changes the state
frame_changes(m) ==
    <<m.app, m.alive, m.last, queried(m.app, None)>>
        /= <<app, alive, last_load, last_query>>

\* ENABLED <<PressRight>>_vars
RightChangesState ==
    /\ started /\ alive
    /\ frame_changes(update(Entering(app),
                             [no_input EXCEPT !.keys = {"ArrowRight"}], fs))

NextRepeatedRight ==
    \/ Start
    \/ PressRight

\* the last conjunct is WF_vars(PressRight)
SpecRepeatedRight ==
    /\ InitFolder
    /\ [][NextRepeatedRight]_vars
    /\ WF_vars(Start)
    /\ ([]<>(~RightChangesState) \/ []<><<PressRight>>_vars)

----------------------------------------------------------------------------
(* The histogram window over a session of loads, clicks on the Histogram   *)
(* button and close requests of the window (SpecHistogramWindow)           *)

\* the frame has registered the window's callback (line 1625)
histogram_window_shown(self) ==
    /\ self.show_histogram
    /\ self.image /= None
    /\ self.histogram_window_id /= None

\* lines 1634-1640: between two frames the callback of the histogram
\* window sees close_requested() and sets the flag of the shared data
RequestClose ==
    /\ started
    /\ alive
    /\ histogram_window_shown(app)
    /\ ~app.histogram_shared_data.close_requested
    /\ app' = [app EXCEPT !.histogram_shared_data.close_requested = TRUE]
    /\ UNCHANGED <<fs, started, alive, last_load, last_query, fft_loop>>

NextHistogramWindow ==
    \/ Start
    \/ OpenImage
    \/ PressArrowKeys
    \/ SelectNormalization
    \/ ClickHistogram
    \/ RequestClose
    \/ Redraw

SpecHistogramWindow == Init /\ [][NextHistogramWindow]_vars

----------------------------------------------------------------------------
(* The output loop of fft (lines 183-197), one put_pixel at a time, on a   *)
(* spectrum of any width and height (SpecQuadrantSwap).  A pixel of the    *)
(* output records the cells of the spectrum that were put there, in order. *)

GridCells(width, height) == (0..(width - 1)) \X (0..(height - 1))

\* line 183: ImageBuffer::new(width, height), and the loop at its first cell
new_fft_image(width, height) ==
    [width  |-> width,
     height |-> height,
     x      |-> 0,
     y      |-> 0,
     pixels |-> [p \in GridCells(width, height) |-> <<>>]]

\* lines 187-188, 193: put_pixel(nx, ny, ...) for the cell (x, y)
put_pixel(loop) ==
    [loop EXCEPT
       !.pixels[<<quadrant_swap(loop.x, loop.width),
                  quadrant_swap(loop.y, loop.height)>>] =
            Append(@, <<loop.x, loop.y>>)]

\* lines 185-186: x runs inside y
next_cell(loop) ==
    IF loop.x + 1 < loop.width
    THEN [loop EXCEPT !.x = loop.x + 1]
    ELSE [loop EXCEPT !.x = 0, !.y = loop.y + 1]

InitQuadrantSwap ==
    /\ app = default_app
    /\ fs = <<>>
    /\ started = FALSE
    /\ alive = TRUE
    /\ last_load = None
    /\ last_query = None
    /\ \E width \in 1..MaxGrid, height \in 1..MaxGrid :
           fft_loop = Some(new_fft_image(width, height))

\* one pass of the loop body
PutPixel ==
    /\ IsSome(fft_loop)
    /\ Unwrap(fft_loop).y < Unwrap(fft_loop).height
    /\ fft_loop' = Some(next_cell(put_pixel(Unwrap(fft_loop))))
    /\ UNCHANGED <<app, fs, started, alive, last_load, last_query>>

NextQuadrantSwap == PutPixel

SpecQuadrantSwap == InitQuadrantSwap /\ [][NextQuadrantSwap]_vars

----------------------------------------------------------------------------
(* Vocabulary of the properties of the session (Spec) *)

\* a step has made a load_image call, and the last one it made failed
LastLoadFailed ==
    /\ IsSome(last_load)
    /\ Unwrap(last_load).ret.tag /= "Ok"

\* the spellings of the TIFF extensions among the paths of the model
TiffSpellings == {"tif", "TIF", "tiff", "TIFF", "Tiff"}

HasTiffExtension(path) ==
    /\ path.ext /= None
    /\ path.ext[1] \in TiffSpellings

PrecisionAbsent ==
    /\ app.is_floating_point_image = FALSE
    /\ app.original_data_range = None
    /\ app.original_fp_data = None
    /\ app.original_fp_dimensions = None
    /\ app.original_fp_channels = None

PrecisionPresent ==
    /\ app.is_floating_point_image = TRUE
    /\ app.original_data_range /= None
    /\ app.original_fp_data /= None
    /\ app.original_fp_dimensions /= None
    /\ app.original_fp_channels /= None

----------------------------------------------------------------------------
(* Properties of the session (Spec) *)

\* C1: a load_image call that fails, whichever request made it (the command
\* line, a dropped file, an arrow key, the Open Image dialog), leaves every
\* field of the application as it was before the call.
C1_FailedLoadLeavesState ==
    LastLoadFailed => ~Unwrap(last_load).changed

\* C1 happens: a load fails while an image loaded earlier, from another
\* path, is on display with its texture
C1_FailedLoadOverImage ==
    /\ LastLoadFailed
    /\ app.image /= None
    /\ app.texture /= None
    /\ app.folder_images /= <<>>
    /\ app.image_path /= Some(Unwrap(last_load).path)

\* C2: in every state the float flag, the source range, the retained float
\* buffer, its dimensions and its channel count are all absent or all
\* present, and when present the retained dimensions are those of the
\* image on display.
C2_PrecisionMatchesDisplay ==
    \/ PrecisionAbsent
    \/ /\ PrecisionPresent
       /\ app.image /= None
       /\ app.original_fp_dimensions =
              Some(<<app.image[1].width, app.image[1].height>>)

\* C2 happens: a float image is on display, with its precision data, and
\* the load that followed it failed
C2_FloatImageSurvivesFailedLoad ==
    /\ PrecisionPresent
    /\ LastLoadFailed
    /\ app.image_path /= Some(Unwrap(last_load).path)

\* C9: every load runs the generic decoder first; the TIFF decoder runs only
\* after the generic decoder failed on a path whose extension is tif or tiff
\* in any letter case; a generic success yields no float flag, no range and
\* no retained buffer; a generic failure on any other extension is returned
\* as an error with the TIFF decoder not run.
C9_GenericFirstTiffOnlyAsFallback ==
    IsSome(last_load) =>
        LET call    == Unwrap(last_load)
            generic == fs[call.path].generic
        IN  /\ Len(call.ran) >= 1
            /\ call.ran[1] = "generic"
            /\ \A k \in 2..Len(call.ran) :
                   /\ call.ran[k] = "tiff"
                   /\ k = 2
                   /\ generic = None
                   /\ HasTiffExtension(call.path)
            /\ generic /= None =>
                   /\ call.ran = <<"generic">>
                   /\ call.ret.tag = "Ok"
                   /\ call.ret.val[1].img = generic[1]
                   /\ call.ret.val[1].is_fp = FALSE
                   /\ call.ret.val[1].data_range = None
                   /\ call.ret.val[1].fp_data = None
            /\ (generic = None /\ ~HasTiffExtension(call.path)) =>
                   /\ call.ran = <<"generic">>
                   /\ call.ret.tag = "Err"

\* C9 happens: the generic decoder failed on a file named .TIF and the TIFF
\* decoder loaded it as a float image
C9_FallbackRanOnUppercaseTif ==
    /\ IsSome(last_load)
    /\ Unwrap(last_load).ran = <<"generic", "tiff">>
    /\ Unwrap(last_load).path.ext = Some("TIF")
    /\ Unwrap(last_load).ret.tag = "Ok"
    /\ app.is_floating_point_image

\* C9 happens on its other side: a float TIFF stored under another extension
\* is refused with the TIFF decoder not run
C9_NoFallbackOnOtherExtension ==
    /\ IsSome(last_load)
    /\ Unwrap(last_load).path.ext = Some("dat")
    /\ Unwrap(last_load).ran = <<"generic">>
    /\ Unwrap(last_load).ret.tag = "Err"

----------------------------------------------------------------------------
(* Vocabulary of the properties of ingestion (SpecIngest) *)

\* the TIFF given to ingestion, its decoded samples, its pixel count
source == fs[IngestPath].tiff
samples == source.decoded.data
pixel_total == source.width * source.height

\* ingestion has run and returned Ok
Ingested ==
    /\ started
    /\ IsSome(last_load)
    /\ Unwrap(last_load).ret.tag = "Ok"

\* ingestion of a 32-bit float TIFF has run and returned Ok
IngestedFloat ==
    /\ Ingested
    /\ source.colortype \in {<<"Gray", 32>>, <<"RGB", 32>>, <<"RGBA", 32>>}

IngestedRgba ==
    /\ Ingested
    /\ source.colortype = <<"RGBA", 32>>

source_channels == SpaceChannels(source.colortype[1])

\* the decoded sequence has one sample per channel of every pixel
WellFormed == Len(samples) = pixel_total * source_channels

\* the display bytes and the recorded range
display == app.image[1].data
range_min == app.original_data_range[1][1]
range_max == app.original_data_range[1][2]

\* position i of an interleaved sequence holds an alpha sample
IsAlpha(i) == source.colortype[1] = "RGBA" /\ i % 4 = 0

\* the positions of the non-alpha samples
ColourPositions == {i \in 1..Len(samples) : ~IsAlpha(i)}

ColourValues == {samples[i] : i \in ColourPositions}
colour_min == CHOOSE v \in ColourValues : \A w \in ColourValues : v <= w
colour_max == CHOOSE v \in ColourValues : \A w \in ColourValues : v >= w

\* hi - lo is above f32::EPSILON, for samples in units of 1 / SampleDen
AboveEpsilon(lo, hi) == (hi - lo) * EpsilonInv > SampleDen

\* every sample, alpha included, has the same value
Uniform == \A i, j \in 1..Len(samples) : samples[i] = samples[j]

\* b is the integer part of num / den (den > 0), kept within a byte
IsTruncatedByte(b, num, den) ==
    /\ b \in 0..255
    /\ \/ b = 0 /\ num < den
       \/ b = 255 /\ num >= 255 * den
       \/ b * den <= num /\ num < (b + 1) * den

\* b is num / den (den > 0) rounded to the nearest integer, halves upward
IsRoundedByte(b, num, den) ==
    /\ 2 * b * den <= 2 * num + den
    /\ 2 * num + den < 2 * (b + 1) * den

\* clamp(a, 0, 1) for a sample a, in units of 1 / SampleDen
Clamp01(a) == IF a < 0 THEN 0 ELSE IF a > SampleDen THEN SampleDen ELSE a

----------------------------------------------------------------------------
(* Properties of ingestion (SpecIngest) *)

\* C3: for a float RGBA TIFF of interleaved [r, g, b, a] pixels the recorded
\* range is the minimum and the maximum of exactly the R, G and B samples of
\* all width * height pixels.
C3_RgbaRangeOverColourSamples ==
    (IngestedRgba /\ WellFormed) =>
        app.original_data_range = Some(<<colour_min, colour_max>>)

\* C4: for a float TIFF (gray, RGB or RGBA) whose non-alpha samples span
\* more than the epsilon, the recorded range is (minimum, maximum) of those
\* samples, every sample equal to the minimum is displayed as 0 and every
\* sample equal to the maximum as 255.
C4_RangeAndEndpoints ==
    (IngestedFloat /\ WellFormed /\ AboveEpsilon(colour_min, colour_max)) =>
        /\ app.original_data_range = Some(<<colour_min, colour_max>>)
        /\ \A i \in ColourPositions :
               /\ samples[i] = colour_min => display[i] = 0
               /\ samples[i] = colour_max => display[i] = 255

\* C5, as the code has it: for a float TIFF whose recorded range (min, max)
\* spans more than the epsilon, the display byte of every non-alpha sample v
\* is ((v - min) / (max - min)) * 255 with its fraction dropped, kept within
\* 0..255.
C5_SamplesTruncatedToBytes ==
    (IngestedFloat /\ AboveEpsilon(range_min, range_max)) =>
        \A i \in ColourPositions :
            IsTruncatedByte(display[i], (samples[i] - range_min) * 255,
                            range_max - range_min)

\* C5 happens: a sample strictly inside the range whose scaled value has a
\* fraction of a half or more
C5_SampleWithLargeFraction ==
    /\ IngestedFloat
    /\ AboveEpsilon(range_min, range_max)
    /\ \E i \in ColourPositions :
           /\ range_min < samples[i]
           /\ samples[i] < range_max
           /\ 2 * (((samples[i] - range_min) * 255) % (range_max - range_min))
                  >= range_max - range_min

\* C5 as stated: the display byte of every non-alpha sample v of the range
\* is ((v - min) / (max - min)) * 255 rounded to the nearest integer.
C5_SamplesRoundedToBytes ==
    (IngestedFloat /\ AboveEpsilon(range_min, range_max)) =>
        \A i \in ColourPositions :
            (range_min <= samples[i] /\ samples[i] <= range_max) =>
                IsRoundedByte(display[i], (samples[i] - range_min) * 255,
                              range_max - range_min)

\* C6, as the code has it: a float TIFF all of whose samples have the value
\* c is recorded with the range (c, c); every display byte of a colour or
\* gray sample is 128, and every alpha byte of an RGBA image is
\* clamp(c, 0, 1) * 255 with its fraction dropped.
C6_UniformColourIsMidGray ==
    (IngestedFloat /\ Uniform) =>
        /\ app.original_data_range = Some(<<samples[1], samples[1]>>)
        /\ Len(display) = Len(samples)
        /\ \A i \in 1..Len(display) :
               IF IsAlpha(i)
               THEN IsTruncatedByte(display[i], Clamp01(samples[i]) * 255,
                                    SampleDen)
               ELSE display[i] = 128

\* C6 happens: a uniform RGBA image whose alpha byte is not 128
C6_UniformRgba ==
    /\ IngestedRgba
    /\ Uniform
    /\ WellFormed
    /\ display[1] = 128
    /\ display[4] /= 128

\* C6 as stated: a float TIFF all of whose samples have the value c gets a
\* display buffer of bytes 128 only and the range (c, c).
C6_UniformIsAll128 ==
    (IngestedFloat /\ Uniform) =>
        /\ app.original_data_range = Some(<<samples[1], samples[1]>>)
        /\ \A i \in 1..Len(display) : display[i] = 128

\* C7: the display alpha byte of every pixel of a float RGBA TIFF is
\* clamp(alpha, 0, 1) * 255, its fraction dropped, of that pixel's own
\* alpha sample, whatever the colour samples and the recorded range are,
\* in the normal and in the uniform branch.
C7_AlphaByteFromAlphaAlone ==
    IngestedRgba =>
        /\ Len(display) = Len(samples)
        /\ \A i \in 1..Len(samples) :
               IsAlpha(i) =>
                   IsTruncatedByte(display[i], Clamp01(samples[i]) * 255,
                                   SampleDen)

\* C7 happens in the uniform branch: the colour bytes are mid-gray, one
\* alpha sample is above 1.0 and another is a fraction
C7_AlphaInUniformBranch ==
    /\ IngestedRgba
    /\ ~AboveEpsilon(range_min, range_max)
    /\ display[1] = 128
    /\ \E i, j \in 1..Len(samples) :
           /\ IsAlpha(i) /\ samples[i] > SampleDen /\ display[i] = 255
           /\ IsAlpha(j) /\ 0 < samples[j] /\ samples[j] < SampleDen
           /\ 0 < display[j] /\ display[j] < 255

\* C7 happens in the normal branch: the same alpha sample below 0.0 beside
\* colour samples that span the range
C7_AlphaInNormalBranch ==
    /\ IngestedRgba
    /\ AboveEpsilon(range_min, range_max)
    /\ \E i \in 1..Len(samples) :
           IsAlpha(i) /\ samples[i] < 0 /\ display[i] = 0
    /\ \E i \in ColourPositions : display[i] = 255

C10_UnsupportedOrMismatchedIsError ==
    (/\ started
     /\ source.opened
     /\ \/ source.colortype \notin Recognized
        \/ source.decoded.type /= ExpectedType(source.colortype[2])) =>
        /\ IsSome(last_load)
        /\ Unwrap(last_load).ran = <<"generic", "tiff">>
        /\ Unwrap(last_load).ret.tag = "Err"
        /\ app.image = None
        /\ app.original_fp_data = None
        /\ app = default_app

\* C10 happens: a CMYK file was given to the TIFF decoder and refused
C10_CmykRefused ==
    /\ started
    /\ source.opened
    /\ source.colortype = <<"CMYK", 8>>
    /\ Unwrap(last_load).ret.err = "Unsupported TIFF color type"

\* C10 happens on its other side: a Gray(32) file decoded to u16 samples
C10_MismatchedTypeRefused ==
    /\ started
    /\ source.colortype = <<"Gray", 32>>
    /\ source.decoded.type = "U16"
    /\ Unwrap(last_load).ret.err = "Unexpected data type"

----------------------------------------------------------------------------
(* Properties of the pixel tool (SpecPixel) *)

\* the pixel tool of the last frame computed an image coordinate
Queried == started /\ last_query /= None

query_x == Unwrap(last_query)[1]
query_y == Unwrap(last_query)[2]

\* the coordinate lies inside the image's native dimensions (line 1429)
QueryInBounds ==
    /\ query_x < Unwrap(app.image).width
    /\ query_y < Unwrap(app.image).height

\* a result slot holds a value for the queried coordinate
ResultFor(slot) ==
    /\ slot /= None
    /\ Unwrap(slot)[1] = query_x
    /\ Unwrap(slot)[2] = query_y

\* lines 1327-1330: the top panel shows the byte result whenever it is set
LabelShown == app.pixel_info /= None

\* lines 1520-1536: the text at the cursor shows the float result, or else
\* the byte result
HoverTextShown ==
    /\ app.hover_pos /= None
    /\ (app.pixel_info_fp /= None \/ app.pixel_info /= None)

\* C11: a pixel query inside the image's native width x height, (0, 0) and
\* (width - 1, height - 1) included, yields a value for that coordinate; a
\* query with x >= width or y >= height yields none and leaves no value of
\* an earlier query presented.
C11_QueryYieldsValueOrOutOfBounds ==
    Queried =>
        IF QueryInBounds
        THEN /\ app.hover_pos /= None
             /\ IF app.pixel_info_fp /= None
                THEN ResultFor(app.pixel_info_fp)
                ELSE ResultFor(app.pixel_info)
        ELSE ~LabelShown /\ ~HoverTextShown

\* C11, the part that holds: every query inside the image yields a value
\* for the queried coordinate
C11_InBoundsQueryYieldsValue ==
    (Queried /\ QueryInBounds) =>
        /\ app.hover_pos /= None
        /\ IF app.pixel_info_fp /= None
           THEN ResultFor(app.pixel_info_fp)
           ELSE ResultFor(app.pixel_info)

\* C11: the last pixel (width - 1, height - 1) of a float image was queried
C11_LastPixelOfFloatImage ==
    /\ Queried
    /\ app.original_fp_data /= None
    /\ Unwrap(app.image).width = 2
    /\ last_query = Some(<<Unwrap(app.image).width - 1,
                           Unwrap(app.image).height - 1>>)

\* C11: the pointer is on the far edge of the image: column width is asked
C11_EdgeQuery ==
    /\ Queried
    /\ query_x = Unwrap(app.image).width

\* the retained float samples of the pixel (x, y): the samples from index
\* (y * width + x) * channels on, a gray sample standing for r, g and b
retained_values(x, y) ==
    LET fp_data == Unwrap(app.original_fp_data)
        channels == Unwrap(app.original_fp_channels)
        base_idx == (y * Unwrap(app.image).width + x) * channels
    IN  IF channels = 1
        THEN <<fp_data[base_idx + 1], fp_data[base_idx + 1],
               fp_data[base_idx + 1]>>
        ELSE <<fp_data[base_idx + 1], fp_data[base_idx + 2],
               fp_data[base_idx + 3]>>

\* the r, g, b bytes of the display buffer at (x, y)
display_values(x, y) == SubSeq(get_pixel(Unwrap(app.image), x, y), 1, 3)

\* C12: after a query inside the image, with a retained precision buffer
\* the float result holds the retained samples at index
\* (y * width + x) * channels and the byte result holds nothing; without
\* one the byte result holds the display bytes at (x, y) and the float
\* result holds nothing.
C12_ExactlyOneResultSlot ==
    (Queried /\ QueryInBounds) =>
        IF app.original_fp_data /= None
        THEN /\ app.pixel_info_fp =
                    Some(<<query_x, query_y>>
                         \o retained_values(query_x, query_y))
             /\ app.pixel_info = None
        ELSE /\ app.pixel_info =
                    Some(<<query_x, query_y>>
                         \o display_values(query_x, query_y))
             /\ app.pixel_info_fp = None

\* C12, the part that holds: the slot the query fills holds the retained
\* samples, or without a precision buffer the display bytes, of (x, y)
C12_QueryReturnsSourceValues ==
    (Queried /\ QueryInBounds) =>
        IF app.original_fp_data /= None
        THEN app.pixel_info_fp =
                 Some(<<query_x, query_y>>
                      \o retained_values(query_x, query_y))
        ELSE /\ app.pixel_info =
                    Some(<<query_x, query_y>>
                         \o display_values(query_x, query_y))
             /\ app.pixel_info_fp = None

\* C12: a float image was queried while the byte result of an earlier
\* query was still set
C12_FloatQueryOverByteResult ==
    /\ Queried
    /\ QueryInBounds
    /\ app.original_fp_data /= None
    /\ app.pixel_info /= None

----------------------------------------------------------------------------
(* Properties of the histogram (SpecHistogram) *)

\* calculate_histogram has run on the ingested image
HistogramComputed ==
    /\ started
    /\ app.image /= None
    /\ app.histogram_data /= None

\* the image is a float image with its retained precision buffer
FloatImage == app.original_fp_data /= None

histograms == Unwrap(app.histogram_data)

\* the sum of the counts of the buckets B of one channel's histogram
RECURSIVE bucket_total(_, _)
bucket_total(histogram, B) ==
    IF B = {} THEN 0
    ELSE LET b == CHOOSE c \in B : TRUE
         IN  histogram[b] + bucket_total(histogram, B \ {b})

C13_CountsOfExactBuffer ==
    HistogramComputed =>
        \A channel \in 1..3 :
            /\ DOMAIN histograms[channel] \subseteq 0..255
            /\ (app.original_fp_data = None \/ WellFormed) =>
                   bucket_total(histograms[channel],
                                DOMAIN histograms[channel])
                       = Unwrap(app.image).width * Unwrap(app.image).height

\* C13: the histogram of a float image with a sample outside the recorded
\* range, and the histogram of an integer image, were computed
C13_SampleOutsideRange ==
    /\ HistogramComputed
    /\ FloatImage
    /\ source.colortype = <<"RGBA", 32>>
    /\ WellFormed
    /\ \E i \in ColourPositions : samples[i] > range_max

C13_FromDisplayBuffer ==
    /\ HistogramComputed
    /\ app.original_fp_data = None
    /\ pixel_total > 1

\* C14: for a float image the bucket of every colour sample is the display
\* byte ingestion produced for it, so the histogram computed from the
\* precision buffer is the histogram of the display buffer's colour
\* channels, uniform images included.
C14_BucketsAreDisplayBytes ==
    (HistogramComputed /\ FloatImage /\ WellFormed) =>
        /\ \A i \in ColourPositions :
               fp_bin(samples[i], range_min, range_max) = display[i]
        /\ histograms = image_histograms(Unwrap(app.image))

\* C14, the part that holds: the same for every float image whose recorded
\* range is above the epsilon
C14_BucketsOfNonUniform ==
    (/\ HistogramComputed
     /\ FloatImage
     /\ WellFormed
     /\ AboveEpsilon(range_min, range_max)) =>
        /\ \A i \in ColourPositions :
               fp_bin(samples[i], range_min, range_max) = display[i]
        /\ histograms = image_histograms(Unwrap(app.image))

\* C14: the histogram of a uniform float image was computed
C14_UniformHistogram ==
    /\ HistogramComputed
    /\ FloatImage
    /\ WellFormed
    /\ Uniform

----------------------------------------------------------------------------
(* Properties of the normalizations (SpecNormalize) *)

\* the texture on screen was made with normalization n
Rendered(n) ==
    /\ started
    /\ app.image /= None
    /\ app.texture /= None
    /\ Unwrap(app.texture).normalization = n

\* the input as the transforms read it, and the pixels they produced
input_rgba == to_rgba8(Unwrap(app.image)).data
output_rgba == Unwrap(app.texture).color_image.pixels

\* the pairs <<value, byte>> that channel i (1..4) of the buffers inp and out
\* holds at one position
pairs_of(inp, out, i) ==
    {<<inp[k], out[k]>> : k \in {j \in 1..Len(inp) : channel_of(j) = i}}

ValueBytes(i) == pairs_of(input_rgba, output_rgba, i)

InputValues(i) == {p[1] : p \in ValueBytes(i)}
OutputValues(i) == {p[2] : p \in ValueBytes(i)}

ConstantChannel(i) == Cardinality(InputValues(i)) = 1

\* the output of channel i is its input
PassedThrough(i) == \A p \in ValueBytes(i) : p[2] = p[1]

\* C15: min_max_normalize treats every channel, alpha included, by itself:
\* a non-constant channel comes out with minimum 0 and maximum 255, a
\* constant channel comes out as it went in.
C15_ChannelStretchedOrUnchanged ==
    Rendered("MinMax") =>
        \A i \in 1..4 :
            IF ConstantChannel(i)
            THEN PassedThrough(i)
            ELSE /\ min_of(OutputValues(i)) = 0
                 /\ max_of(OutputValues(i)) = 255

\* C15: a non-constant channel next to a constant channel of another value
\* and a non-constant channel of another range
C15_MixedChannels ==
    /\ Rendered("MinMax")
    /\ \E i, j \in 1..3 :
           /\ ~ConstantChannel(i)
           /\ ConstantChannel(j)
           /\ InputValues(j) /= {0}
    /\ \E i, j \in 1..3 :
           /\ ~ConstantChannel(i)
           /\ ~ConstantChannel(j)
           /\ min_of(InputValues(i)) /= min_of(InputValues(j))

\* C15: the alpha channel of an RGBA image is non-constant
C15_AlphaStretched ==
    /\ Rendered("MinMax")
    /\ ~ConstantChannel(4)

\* the samples of channel i as the image itself holds them, 8 or 16 bits
NativeValues(i) ==
    LET img == Unwrap(app.image)
    IN  {img.data[k] : k \in {j \in 1..(img.width * img.height * Channels(img.kind)) :
                                 ((j - 1) % Channels(img.kind)) + 1 = i}}

\* C15: the same for every input buffer, 16-bit buffers included: a channel
\* whose samples are not all equal comes out with minimum 0 and maximum 255,
\* a channel whose samples are all equal comes out as it went in.
C15_EveryBufferStretchedOrUnchanged ==
    Rendered("MinMax") =>
        \A i \in 1..Channels(Unwrap(app.image).kind) :
            IF Cardinality(NativeValues(i)) = 1
            THEN PassedThrough(i)
            ELSE /\ min_of(OutputValues(i)) = 0
                 /\ max_of(OutputValues(i)) = 255

\* every pair satisfies Is(byte, numerator, denominator) for the scaled value
\* (value - lo) * 255 / (hi - lo)
ScaledAs(Is(_, _, _), pairs, lo, hi) ==
    \A p \in pairs : Is(p[2], (p[1] - lo) * 255, hi - lo)

\* every sample of a non-constant channel is scaled between the minimum and
\* the maximum of the channel
MinMaxSamples(Is(_, _, _)) ==
    \A i \in 1..4 :
        ~ConstantChannel(i) =>
            ScaledAs(Is, ValueBytes(i),
                     min_of(InputValues(i)), max_of(InputValues(i)))

\* some value has a scaled value with a fraction of one half or more
LargeFraction(values, lo, hi) ==
    \E v \in values : 2 * (((v - lo) * 255) % (hi - lo)) >= hi - lo

\* C16 (as the code has it): for every pixel and channel with max > min,
\* min_max_normalize outputs ((value - min) / (max - min)) * 255 with its
\* fraction dropped.
C16_ScaledValueTruncated ==
    Rendered("MinMax") => MinMaxSamples(IsTruncatedByte)

\* C16 (as stated): for every pixel and channel with max > min,
\* min_max_normalize outputs ((value - min) / (max - min)) * 255 rounded to
\* the nearest integer.
C16_ScaledValueRounded ==
    Rendered("MinMax") => MinMaxSamples(IsRoundedByte)

\* C16: a sample whose scaled value has a fraction of one half or more
C16_ScaledValueWithLargeFraction ==
    /\ Rendered("MinMax")
    /\ \E i \in 1..4 :
           /\ ~ConstantChannel(i)
           /\ LargeFraction(InputValues(i),
                            min_of(InputValues(i)), max_of(InputValues(i)))

\* the three normalizations that work sample by sample
SampleNormalizations == {"MinMax", "LogMinMax", "Standard"}

\* the buffer the selected normalization returned for the image on screen
returned_img ==
    normalized_img(Unwrap(app.image), Unwrap(app.texture).normalization)

\* C17: min_max_normalize, log_min_max_normalize and standardize each return
\* a buffer with the width, the height and the channel count of their input,
\* for gray, RGB and RGBA inputs.
C17_SameSizeAndChannelCount ==
    (\E n \in SampleNormalizations : Rendered(n)) =>
        /\ returned_img.width = Unwrap(app.image).width
        /\ returned_img.height = Unwrap(app.image).height
        /\ Channels(returned_img.kind) = Channels(Unwrap(app.image).kind)

\* C17 (what the code keeps): each of the three returns an 8-bit RGBA buffer
\* with the width and the height of its input, one sample per position.
C17_SameSizeAsRgba8 ==
    (\E n \in SampleNormalizations : Rendered(n)) =>
        /\ returned_img.width = Unwrap(app.image).width
        /\ returned_img.height = Unwrap(app.image).height
        /\ returned_img.kind = "Rgba8"
        /\ Len(returned_img.data) = 4 * returned_img.width * returned_img.height

\* C17: a gray image and an RGB image went through each of the three
C17_GrayAndRgbTransformed ==
    /\ \E n \in SampleNormalizations : Rendered(n)
    /\ Channels(Unwrap(app.image).kind) < 4
    /\ Unwrap(app.image).width > 1

\* the values of a channel above zero
Positive(values) == {v \in values : v > 0}

\* the bytes the value v of channel i is output as
BytesOf(pairs, v) == {p[2] : p \in {q \in pairs : q[1] = v}}

\* C18: in log_min_max_normalize a sample of value 0 is output as 0; zero
\* samples do not count for the minimum and the maximum of the logarithms,
\* so a channel with two or more distinct positive values has its smallest
\* positive value output as 0 and its largest as 255, with or without zeros,
\* and a channel with no or one distinct positive value is output unchanged.
\* (The logarithm of the model, ln, has no value at 0: an evaluation there
\* would stop the check.)
C18_ZerosKeptPositivesStretched ==
    Rendered("LogMinMax") =>
        \A i \in 1..4 :
            /\ BytesOf(ValueBytes(i), 0) \subseteq {0}
            /\ IF Cardinality(Positive(InputValues(i))) >= 2
               THEN /\ BytesOf(ValueBytes(i), min_of(Positive(InputValues(i)))) = {0}
                    /\ BytesOf(ValueBytes(i), max_of(Positive(InputValues(i)))) = {255}
               ELSE PassedThrough(i)

\* C18: a channel with zeros and two distinct positive values, the smaller
\* of them above 1
C18_ZerosAmongPositives ==
    /\ Rendered("LogMinMax")
    /\ \E i \in 1..4 :
           /\ 0 \in InputValues(i)
           /\ Cardinality(Positive(InputValues(i))) >= 2
           /\ min_of(Positive(InputValues(i))) > 1

\* C18: a channel with zeros and one positive value
C18_ZerosAndOnePositive ==
    /\ Rendered("LogMinMax")
    /\ \E i \in 1..4 :
           /\ 0 \in InputValues(i)
           /\ Cardinality(Positive(InputValues(i))) = 1

\* the exact sum of f(v) over the samples v of channel i of inp that are in
\* values
RECURSIVE sum_over(_, _, _, _)
sum_over(f(_), inp, i, values) ==
    IF values = {} THEN 0
    ELSE LET v == CHOOSE w \in values : TRUE
         IN  f(v) * Cardinality({k \in 1..Len(inp) :
                                    channel_of(k) = i /\ inp[k] = v})
               + sum_over(f, inp, i, values \ {v})

PixelCount == Len(input_rgba) \div 4
ExactSum(i) == LET f(v) == v IN sum_over(f, input_rgba, i, InputValues(i))
ExactSumSq(i) == LET f(v) == v * v IN sum_over(f, input_rgba, i, InputValues(i))

\* equal or smaller values give equal or smaller bytes
Monotone(pairs) ==
    \A p, q \in pairs : p[1] <= q[1] => p[2] <= q[2]

\* a value equal to the mean sum / total gives 127
MeanGives127(pairs, total, sum) ==
    \A p \in pairs : total * p[1] = sum => p[2] = 127

\* a >= u * sqrt(d) for d > 0
AtLeastRootTimes(a, u, d) ==
    IF u <= 0
    THEN a >= 0 \/ a * a <= u * u * d
    ELSE a >= 0 /\ a * a >= u * u * d

\* b is within one of clamp(127 + a / sqrt(d), 0, 255)
NearStandardScore(b, a, d) ==
    /\ b \in 0..255
    /\ b <= 1 \/ AtLeastRootTimes(a, b - 1 - 127, d)
    /\ b >= 254 \/ AtLeastRootTimes(0 - a, 127 - (b + 1), d)

\* every byte is within one of the standard score
\* clamp((v - mean) / stddev * 50 + 127, 0, 255) of the population
NearStandardScores(pairs, total, sum, sum_sq) ==
    \A p \in pairs :
        NearStandardScore(p[2], 50 * (total * p[1] - sum),
                          total * sum_sq - sum * sum)

\* C19: in standardize a constant channel passes through unchanged; in any
\* other channel the output does not decrease when the value grows and a
\* value equal to the mean is output as 127.
C19_ConstantUnchangedElseMonotone ==
    Rendered("Standard") =>
        \A i \in 1..4 :
            IF ConstantChannel(i)
            THEN PassedThrough(i)
            ELSE /\ Monotone(ValueBytes(i))
                 /\ MeanGives127(ValueBytes(i), PixelCount, ExactSum(i))

\* C19 (images of up to MaxSide * MaxSide pixels): the same, and every byte
\* of a non-constant channel is within one of
\* clamp(((v - mean) / stddev) * 50 + 127, 0, 255).
C19_SmallImageStandardized ==
    Rendered("Standard") =>
        \A i \in 1..4 :
            IF ConstantChannel(i)
            THEN PassedThrough(i)
            ELSE /\ Monotone(ValueBytes(i))
                 /\ MeanGives127(ValueBytes(i), PixelCount, ExactSum(i))
                 /\ NearStandardScores(ValueBytes(i), PixelCount,
                                       ExactSum(i), ExactSumSq(i))

\* C19: a small image with a value equal to the mean, or with a byte clamped
\* to 255
C19_MeanValueOrClampedValue ==
    /\ Rendered("Standard")
    /\ \E i \in 1..4 :
           /\ ~ConstantChannel(i)
           /\ \/ \E v \in InputValues(i) : PixelCount * v = ExactSum(i)
              \/ 255 \in OutputValues(i)

----------------------------------------------------------------------------
(* Properties of the spectral view (SpecSpectrum) *)

\* the transform of the image on screen, and the greatest squared norm
spectrum == fft_2d(fft_input(to_luma8(Unwrap(app.image))))

\* a window value of the image on screen is NaN
WindowIsNaN ==
    \E x \in 0..(Unwrap(app.image).width - 1) :
        hamming(x, Unwrap(app.image).width) = NaN

\* some grid cell has the ratio NaN for the greatest squared norm max_sqr
SomeRatioNaN(grid, max_sqr) ==
    \E y \in 1..Len(grid) : \E x \in 1..Len(grid[1]) :
        magnitude_ratio(grid[y][x], max_sqr) = NaN

\* the quotient magnitude / max_magnitude of some cell is NaN
RatioIsNaN == SomeRatioNaN(spectrum, max_norm_sqr(spectrum))

\* every sample of the image on screen is 0
AllBlack == \A k \in 1..Len(Unwrap(app.image).data) : Unwrap(app.image).data[k] = 0

\* every pixel on screen is black and opaque
ShownBlack ==
    \A k \in 1..Len(output_rgba) :
        output_rgba[k] = IF channel_of(k) = 4 THEN 255 ELSE 0

\* C20: the spectral view gives a result for every image of width >= 1 and
\* height >= 1; no NaN enters the computation, neither from the window of
\* an image of width 1 nor from the quotient by max_magnitude of an
\* all-black image, and an all-black image gives pixels 0.
C20_NoNaNInSpectrum ==
    Rendered("FFT") =>
        /\ ~WindowIsNaN
        /\ ~RatioIsNaN
        /\ AllBlack => ShownBlack

\* C20 (what the code keeps): the spectral view gives a result of the size
\* of the image; an all-black image and every image of width 1 give pixels 0.
C20_SpectrumShown ==
    Rendered("FFT") =>
        /\ Len(output_rgba) = 4 * Unwrap(app.image).width * Unwrap(app.image).height
        /\ AllBlack \/ Unwrap(app.image).width = 1 => ShownBlack

\* C20: an all-black image wider than one pixel
C20_AllBlackShown ==
    /\ Rendered("FFT")
    /\ AllBlack
    /\ Unwrap(app.image).width > 1

\* C20: an image of width 1 that is not black
C20_SingleColumnShown ==
    /\ Rendered("FFT")
    /\ ~AllBlack
    /\ Unwrap(app.image).width = 1
    /\ Unwrap(app.image).height > 1

\* every pixel of the image on screen has the samples of its first pixel
ConstantImage ==
    \A k \in 1..Len(Unwrap(app.image).data) :
        Unwrap(app.image).data[k] =
            Unwrap(app.image).data[((k - 1) % Channels(Unwrap(app.image).kind)) + 1]

\* the position in output_rgba of the gray byte of pixel (x, y)
GrayAt(x, y) == 4 * (y * Unwrap(app.image).width + x) + 1

\* the pixel at (width/2, height/2) is 255 and every other pixel is 0
OnlyCentreLit ==
    \A x \in 0..(Unwrap(app.image).width - 1),
       y \in 0..(Unwrap(app.image).height - 1) :
        output_rgba[GrayAt(x, y)] =
            IF /\ x = Unwrap(app.image).width \div 2
               /\ y = Unwrap(app.image).height \div 2
            THEN 255 ELSE 0

\* C22: the spectral view of a constant-valued image has the pixel at
\* (width/2, height/2) equal to 255 and every other pixel equal to 0.
C22_ConstantImageOnlyDC ==
    (Rendered("FFT") /\ ConstantImage) => OnlyCentreLit

\* C22 (what the code keeps): the same for the constant images of width 2
\* that are not black, whose two window values are equal
C22_ConstantImageOfWidthTwo ==
    (Rendered("FFT") /\ ConstantImage /\ ~AllBlack
       /\ Unwrap(app.image).width = 2)
    => OnlyCentreLit

\* C22: a constant image of width 4 that is not black
C22_ConstantImageOfWidthFour ==
    /\ Rendered("FFT")
    /\ ConstantImage
    /\ ~AllBlack
    /\ Unwrap(app.image).width = 4
    /\ output_rgba[GrayAt(2, 0)] = 255
    /\ output_rgba[GrayAt(3, 0)] /= 0

----------------------------------------------------------------------------
(* Properties of the spectral view under a cyclic shift (SpecShift) *)

\* the spectral view of the file at TransformPath is on screen
SpectrumOfImageShown ==
    /\ Rendered("FFT")
    /\ app.image_path = Some(TransformPath)

\* the spectral view of the file at ShiftedPath is on screen
SpectrumOfShiftShown ==
    /\ Rendered("FFT")
    /\ app.image_path = Some(ShiftedPath)

\* the two files differ by a shift of rows only
VerticalShift ==
    fs[ShiftedPath].generic \in
        {Some(shift_image(Unwrap(fs[TransformPath].generic), 0, dy)) :
            dy \in 1..(Unwrap(fs[TransformPath].generic).height - 1)}

\* C23: the spectral view of a cyclically shifted image, by columns or by
\* rows, equals the spectral view of the image pixel for pixel: opening
\* the shifted file over the image leaves the pixels on screen as they were.
C23_ShiftKeepsSpectrum ==
    [][(SpectrumOfImageShown /\ SpectrumOfShiftShown')
         => Unwrap(app.texture).color_image = Unwrap(app.texture).color_image']_vars

\* C23 (what the code keeps): the same for a shift by rows alone, which the
\* window of line 143 does not see
C23_VerticalShiftKeepsSpectrum ==
    [][(SpectrumOfImageShown /\ SpectrumOfShiftShown' /\ VerticalShift)
         => Unwrap(app.texture).color_image = Unwrap(app.texture).color_image']_vars

\* the squared norm of the spectrum cell of img that is shown at pixel (x, y)
norm_sqr_shown(grid, x, y) ==
    norm_sqr(grid[swapped_from(y, Len(grid)) + 1]
                 [swapped_from(x, Len(grid[1])) + 1])

\* some pixel is 0 in the view of the cell grid `shifted` and above 127 in
\* the view of `grid`: the cell of `shifted` is 0, and that of `grid` has a
\* norm of at least half the greatest norm, so that log10(norm + 1) is
\* more than half of max_magnitude
DarkOnlyAfterShift(grid, shifted, max_sqr) ==
    \E y \in 0..(Len(grid) - 1), x \in 0..(Len(grid[1]) - 1) :
        /\ norm_sqr_shown(shifted, x, y) = 0
        /\ norm_sqr_shown(grid, x, y) > 0
        /\ 4 * norm_sqr_shown(grid, x, y) >= max_sqr

spectrum_of(img) == fft_2d(fft_input(to_luma8(img)))

\* C23: the view of the shifted file is on screen, and a pixel that is
\* bright in the view of the image is 0 in it
C23_ShiftDarkensPixel ==
    /\ SpectrumOfShiftShown
    /\ Unwrap(app.image).width = 4
    /\ DarkOnlyAfterShift(spectrum_of(Unwrap(fs[TransformPath].generic)),
                          spectrum,
                          max_norm_sqr(spectrum_of(Unwrap(fs[TransformPath].generic))))

\* C23: the view of a file shifted by rows alone is on screen in place of
\* the view of the image
C23_VerticalShiftShown ==
    /\ SpectrumOfShiftShown
    /\ VerticalShift
    /\ Unwrap(app.image).width = 4
    /\ ~ConstantImage

----------------------------------------------------------------------------
(* Properties of the quadrant swap (SpecQuadrantSwap) *)

LoopDone == IsSome(fft_loop) /\ Unwrap(fft_loop).y = Unwrap(fft_loop).height

\* the output position of the DC cell
Centre(loop) == <<loop.width \div 2, loop.height \div 2>>

\* C21: cell (x, y) of the spectrum is put at ((x + width/2) mod width,
\* (y + height/2) mod height); no output pixel is written twice, when the
\* loop has ended every output pixel has been written exactly once, and the
\* DC cell (0, 0) is the one at (width/2, height/2), for even and odd sides
C21_QuadrantSwapIsBijection ==
    IsSome(fft_loop) =>
        /\ \A p \in DOMAIN Unwrap(fft_loop).pixels :
              /\ Len(Unwrap(fft_loop).pixels[p]) <= 1
              /\ \A c \in GridCells(Unwrap(fft_loop).width,
                                    Unwrap(fft_loop).height) :
                    (Len(Unwrap(fft_loop).pixels[p]) = 1
                       /\ Unwrap(fft_loop).pixels[p][1] = c)
                    => p = <<(c[1] + Unwrap(fft_loop).width \div 2)
                               % Unwrap(fft_loop).width,
                             (c[2] + Unwrap(fft_loop).height \div 2)
                               % Unwrap(fft_loop).height>>
        /\ LoopDone =>
              /\ \A p \in DOMAIN Unwrap(fft_loop).pixels :
                    Len(Unwrap(fft_loop).pixels[p]) = 1
              /\ Unwrap(fft_loop).pixels[Centre(Unwrap(fft_loop))]
                   = << <<0, 0>> >>

\* the loop has ended on a spectrum of odd width and even height, both
\* above 2
C21_OddByEvenSwapped ==
    /\ LoopDone
    /\ Unwrap(fft_loop).width = 3
    /\ Unwrap(fft_loop).height = 4

----------------------------------------------------------------------------
(* Properties of the texture cache (SpecTexture) *)

\* the scale is within 0.2 of the one the texture was made at
ScaleWithinTolerance(self) ==
    Abs(self.last_texture_scale - self.scale) * 10 <= 2 * ScaleOne

\* the fields update_texture caches
texture_cache(self) ==
    <<self.texture, self.last_texture_scale, self.last_normalization,
      self.last_channel>>

\* the frame loads no image and calls update_texture (line 1334) with a
\* texture present, the normalization and the channel it was made with
\* and a scale within 0.2 of the one it was made at
CallsUpdateTextureUnchanged ==
    /\ started /\ alive
    /\ last_load' = None
    /\ IsSome(app.image) /\ IsSome(app.texture)
    /\ app.texture_needs_update
    /\ app'.normalization = app.last_normalization
    /\ app'.channel = app.last_channel
    /\ ScaleWithinTolerance(app)

\* C24: update_texture neither recomputes the transform nor replaces the
\* texture when a texture exists and none of its inputs changed: the same
\* image, the normalization and the channel of the last generation and a
\* scale within 0.2 of last_texture_scale.  The texture,
\* last_texture_scale, last_normalization and last_channel are as before
\* the call.
C24_UnchangedInputsKeepTexture ==
    [][CallsUpdateTextureUnchanged => texture_cache(app') = texture_cache(app)]_vars

\* update_texture was called at a scale that is not the texture's own, but
\* within 0.2 of it, and the texture was kept
C24_KeptAtNearbyScale ==
    /\ started /\ alive
    /\ IsSome(app.image) /\ IsSome(app.texture)
    /\ ~app.texture_needs_update
    /\ app.scale /= app.last_texture_scale
    /\ ScaleWithinTolerance(app)
    /\ app.normalization = "MinMax"
    /\ Unwrap(app.texture).final_scale = app.base_scale * app.last_texture_scale

\* the texture was generated from the image, the normalization and the
\* channel of self
TextureOfCurrentInputs(self) ==
    /\ IsSome(self.texture)
    /\ Unwrap(self.texture).image = Unwrap(self.image)
    /\ Unwrap(self.texture).normalization = self.normalization
    /\ Unwrap(self.texture).channel = self.channel

\* the texture was generated at a scale within 0.2 of the scale of self
TextureAtCurrentScale(self) ==
    /\ IsSome(self.texture)
    /\ Abs(Unwrap(self.texture).final_scale - self.base_scale * self.scale) * 10
           <= 2 * ScaleOne * self.base_scale

\* the step is a frame of update that ends with an image loaded
FrameEndsWithImage == started /\ alive' /\ IsSome(app'.image)

\* C25: at the end of every update frame with an image loaded, after any
\* sequence of loads, mode and channel changes and slider moves, a texture
\* exists that was generated from the current image, the current
\* normalization and channel, at a scale that differs from the current
\* scale by at most 0.2.
C25_TextureCurrentAtFrameEnd ==
    [][FrameEndsWithImage =>
         TextureOfCurrentInputs(app') /\ TextureAtCurrentScale(app')]_vars

\* the part of it that does not mention the scale
C25_TextureOfCurrentImageAndMode ==
    [][FrameEndsWithImage => TextureOfCurrentInputs(app')]_vars

\* a frame has ended with the texture made at a scale more than 0.2 away
C25_TextureAtStaleScale ==
    /\ started /\ alive
    /\ IsSome(app.image) /\ IsSome(app.texture)
    /\ ~TextureAtCurrentScale(app)
----------------------------------------------------------------------------
(* Properties of the error of a failed fallback (SpecIngest) *)

\* the last load_image call ran both decoders and returned an error
BothDecodersFailed ==
    /\ IsSome(last_load)
    /\ Unwrap(last_load).ran = <<"generic", "tiff">>
    /\ Unwrap(last_load).ret.tag = "Err"

\* C26: when the generic decode of a .tif/.tiff file fails and the direct
\* TIFF decode fails as well, load_image_with_fallback returns the original
\* error, the one of the generic decoder.
C26_FailedFallbackReturnsGenericError ==
    BothDecodersFailed =>
        Unwrap(last_load).ret.err = "generic decode failed"
----------------------------------------------------------------------------
(* Properties of the folder list (Spec) *)

\* current_image_index is an index of folder_images, and the entry there
\* is the path of the displayed image
IndexNamesDisplayedImage(self) ==
    IsSome(self.current_image_index) =>
        /\ Unwrap(self.current_image_index) < Len(self.folder_images)
        /\ IsSome(self.image_path)
        /\ self.folder_images[Unwrap(self.current_image_index) + 1]
               = Unwrap(self.image_path)

\* a frame in which arrow keys are pressed ends as the frame without them
KeysChangeNothing(self) ==
    \A keys \in SUBSET {"ArrowLeft", "ArrowRight"} :
        update(Entering(self), [no_input EXCEPT !.keys = keys], fs)
            = update(Entering(self), no_input, fs)

\* C27: after any sequence of loads, successful or failed, and arrow-key
\* navigations, whenever current_image_index is Some(i), i is less than
\* folder_images.len() and folder_images[i] is image_path, the path of the
\* image displayed; navigation with an empty folder list changes nothing.
C27_IndexNamesDisplayedImage ==
    /\ IndexNamesDisplayedImage(app)
    /\ (started /\ alive /\ app.folder_images = <<>>) => KeysChangeNothing(app)

\* the third of five listed files is displayed and the last load, of one
\* of its neighbours, has failed
C27_IndexAfterFailedNeighbour ==
    /\ started /\ alive
    /\ LastLoadFailed
    /\ Len(app.folder_images) = 5
    /\ app.current_image_index = Some(2)
    /\ Unwrap(last_load).path \in {app.folder_images[2], app.folder_images[4]}
----------------------------------------------------------------------------
(* Properties of the walk through a folder (SpecRepeatedRight) *)

\* the files of the folder that decode
Loadable(p) == p \in DOMAIN fs /\ IsSome(fs[p].generic)

Displayed(p) == started /\ IsSome(app.image) /\ app.image_path = Some(p)

SomeImageDisplayed == started /\ IsSome(app.image)

\* C28: arrow-key navigation is cyclic and makes progress: from any image
\* of a folder, repeated Right presses eventually display every loadable
\* image of the folder, also when some file of the folder fails to load.
C28_RepeatedRightShowsEveryLoadable ==
    \A k \in 1..MaxFolder :
        (SomeImageDisplayed /\ Loadable(FolderPath(k)))
            ~> Displayed(FolderPath(k))

\* every file of the folder decodes
NoneFails == \A p \in DOMAIN fs : Loadable(p)

\* the same for a folder without a failing file
C28_RepeatedRightCyclesLoadableFolder ==
    \A k \in 1..MaxFolder :
        (SomeImageDisplayed /\ NoneFails /\ Loadable(FolderPath(k)))
            ~> Displayed(FolderPath(k))

\* the entry navigate_to_adjacent_image loads from index i of n entries
tried_path(self, direction) ==
    Unwrap(navigate_to_adjacent_image(Entering(self), direction, fs).last).path

\* Right loads entry (i + 1) mod n and Left entry (i - 1) mod n
C28_RightTriesNextLeftTriesPrevious ==
    (started /\ alive /\ IsSome(app.current_image_index)) =>
        LET i == Unwrap(app.current_image_index)
            n == Len(app.folder_images)
        IN  /\ tried_path(app, 1) = app.folder_images[((i + 1) % n) + 1]
            /\ tried_path(app, 0 - 1) = app.folder_images[((i + n - 1) % n) + 1]

\* Right was pressed on the first of three files, the second failed to
\* load and the first is still displayed, while the third decodes
C28_StuckBeforeFailingFile ==
    /\ Displayed(FolderPath(1))
    /\ LastLoadFailed
    /\ Unwrap(last_load).path = FolderPath(2)
    /\ Loadable(FolderPath(3))
----------------------------------------------------------------------------
(* Properties of the histogram window (SpecHistogramWindow) *)

\* C29: at the end of every update frame, after any sequence of Histogram
\* button clicks, image loads and window close requests, with or without
\* an image loaded, show_histogram is true exactly when
\* histogram_window_id is set; one click on the Histogram button therefore
\* toggles between a shown and a hidden histogram window.
C29_ShownExactlyWhenWindowId ==
    (started /\ alive) =>
        (app.show_histogram <=> IsSome(app.histogram_window_id))

\* one direction of it: a window id is set only while show_histogram is true
C29_WindowIdOnlyWhenShown ==
    (started /\ alive) =>
        (IsSome(app.histogram_window_id) => app.show_histogram)

\* a close request of the histogram window resets show_histogram, the
\* window id and the close_requested flag in the next frame
C29_CloseRequestResetInNextFrame ==
    [][(app.histogram_shared_data.close_requested /\ ~RequestClose)
          => /\ ~app'.show_histogram
             /\ app'.histogram_window_id = None
             /\ ~app'.histogram_shared_data.close_requested]_vars

\* an image is loaded and show_histogram is true, but no window is shown
C29_ShownFlagWithoutWindow ==
    /\ started /\ alive
    /\ IsSome(app.image)
    /\ app.show_histogram
    /\ app.histogram_window_id = None

\* the histograms calculate_histogram computes from the image of self
histograms_of(self) == calculate_histogram(self).histogram_data

\* C30: whenever the histogram window is shown at the end of an update
\* frame, the histogram it reads from the shared data was computed from
\* the currently loaded image: a load invalidates the histogram and it is
\* recomputed and published in the same frame, before the window's
\* callback is registered; a histogram first opened after several loads
\* is that of the current image.
C30_ShownHistogramIsOfCurrentImage ==
    (started /\ alive /\ histogram_window_shown(app)) =>
        /\ ~app.histogram_needs_update
        /\ IsSome(app.histogram_shared_data.histograms)
        /\ app.histogram_shared_data.histograms = histograms_of(app)

\* the window is shown, and the last frame has loaded another image over
\* the one whose histogram was published before
C30_LoadedUnderOpenWindow == 
    /\ started /\ alive
    /\ histogram_window_shown(app)
    /\ IsSome(last_load)
    /\ Unwrap(last_load).ret.tag = "Ok"
    /\ Unwrap(last_load).changed
    /\ app.is_floating_point_image
====
